---------------------------- MODULE Spec2Model ----------------------------
(***************************************************************************)
(* Model of the MindFlow layout engine (client/src/lib/layout.ts, kept as  *)
(* src/unnamed/part_001 lines 1-1014): getLayoutedElements with its three  *)
(* strategies, horizontalLayout ('LR'), radialLayout ('radial') and the    *)
(* dagre based rank layout ('TB').                                         *)
(*                                                                         *)
(* Node ids are the indices 1..Len(nodes) of the input node array, so the  *)
(* input order of the code is the numeric order here.  Lengths are kept in *)
(* hundredths of a CSS pixel (Px), which makes every division by two of    *)
(* the horizontal layout exact for the even pixel sizes drawn here.        *)
(* Angles are kept in 1/10000 radian, cosines and sines in 1/10000.        *)
(***************************************************************************)
EXTENDS Integers, Sequences, FiniteSets, TLC

VARIABLES
    direction,        \* the LayoutDirection argument
    nodes,            \* the nodes argument: measured size, data size, position, data.level
    edges,            \* the edges argument: source, target, sourceHandle, targetHandle
    pc,               \* position of the call inside getLayoutedElements
    children,         \* buildTree: id -> ordered child ids
    parent,           \* buildTree: id -> parent id (0: none)
    rootId,           \* rootNode of horizontalLayout / getLayoutedElements (0: none)
    positions,        \* Map id -> centre {x, y}
    posOrder,         \* the keys of positions, in insertion order
    handlePositions,  \* Map id -> {target, source}
    visited,          \* radialLayout: the ids reached by calculateLevels
    iteration,        \* resolveOverlaps: iteration
    hasOverlap,       \* resolveOverlaps: hasOverlap
    warned,           \* console.warn('Could not fully resolve all overlaps ...') was emitted
    newNodes,         \* the returned nodes
    newEdges,         \* the returned edges
    findPc,           \* position of a call inside findNonOverlappingPosition
    findArgs,         \* its arguments: initialX, initialY, nodeWidth, nodeHeight,
                      \* existingNodes, direction
    bestX,            \* findNonOverlappingPosition: bestX
    bestY,            \* findNonOverlappingPosition: bestY
    minDistance,      \* findNonOverlappingPosition: minDistance
    callNo,           \* 1 in the first call of getLayoutedElements, 2 in a repeated one
    firstResult,      \* what the first of two calls returned
    firstOutcome,     \* what the arithmetic and dagre came out with in the first call
    levelArgs,        \* calculateNodeLevels: its arguments, the number of nodes and the edges
    levelQueue,       \* calculateNodeLevels: queue
    nodeLevels,       \* calculateNodeLevels: levels (noLevel: no entry)
    levelVisited,     \* calculateNodeLevels: visited
    levelPc,          \* position of a call inside calculateNodeLevels
    mapNodes,         \* MindMapContent: the nodes of the canvas
    mapEdges,         \* MindMapContent: the edges of the canvas
    editingNodeId,    \* MindMapContent: editingNodeId (0: null)
    lastOp            \* the last operation on the canvas and the node it found selected

layoutVars == <<direction, nodes, edges, pc, children, parent, rootId, positions, posOrder,
                handlePositions, visited, iteration, hasOverlap, warned, newNodes, newEdges>>

findVars == <<findPc, findArgs, bestX, bestY, minDistance>>

callVars == <<callNo, firstResult, firstOutcome>>

levelVars == <<levelArgs, levelQueue, nodeLevels, levelVisited, levelPc>>

editVars == <<mapNodes, mapEdges, editingNodeId, lastOp>>

pageVars == <<levelVars, editVars>>

vars == <<layoutVars, findVars, callVars, pageVars>>

---------------------------------------------------------------------------
(* Bounds of the model *)

MaxNodes == 4
MaxCyclic == 3
MaxFan == 9

---------------------------------------------------------------------------
(* Program constants, in CSS pixels as written in the source *)

nodeWidth == 250
nodeHeight == 80
rootX == 800
rootY == 500
horizontalSpacing == 350
baseVerticalSpacing == 30
minPadding == 25
maxIterations == 50
\* the cap of the overlap pass, where the parent/child pass has its own
capOfOverlapPass == maxIterations
parentChildPaddingX == 40
parentChildStepX == 40
maxParentChildIterations == 20

Px(v) == 100 * v
Half(v) == v \div 2
Max(a, b) == IF a >= b THEN a ELSE b
Min(a, b) == IF a <= b THEN a ELSE b

\* a ?? b, with 0 standing for an absent (undefined) number
Coalesce(v, d) == IF v = 0 THEN d ELSE v

NodeIds == 1..Len(nodes)

\* node.position in Px units: the arguments give it in whole pixels (scale Px(1)), a
\* result handed back as an argument has it in Px units already (scale 1)
positionX(id) == nodes[id].scale * nodes[id].x
positionY(id) == nodes[id].scale * nodes[id].y

Has(order, id) == \E k \in 1..Len(order) : order[k] = id

---------------------------------------------------------------------------
(* Graph model utilities *)

RECURSIVE ChildrenOf(_, _, _)
ChildrenOf(es, id, k) ==
    IF k > Len(es) THEN <<>>
    ELSE IF es[k].source = id THEN <<es[k].target>> \o ChildrenOf(es, id, k + 1)
         ELSE ChildrenOf(es, id, k + 1)

\* the source of the first edge into id among the first k edges
firstParentOf(es, id, k) ==
    LET into == {j \in 1..k : es[j].target = id}
    IN IF into = {} THEN 0 ELSE es[CHOOSE j \in into : \A i \in into : j <= i].source

RECURSIVE ParentOf(_, _, _)
ParentOf(es, id, k) ==
    IF k = 0 THEN 0
    ELSE IF es[k].target = id THEN es[k].source ELSE ParentOf(es, id, k - 1)

\* buildTree: every node starts with no child; each edge appends its target to the
\* children of its source and sets parent[target], so the last edge wins
buildTreeChildren(ns, es) == [id \in 1..Len(ns) |-> ChildrenOf(es, id, 1)]
buildTreeParent(ns, es) == [id \in 1..Len(ns) |-> ParentOf(es, id, Len(es))]

targetIds(es) == {es[k].target : k \in 1..Len(es)}

\* nodes.filter(n => !targetIds.has(n.id)), as the ascending sequence of ids
RECURSIVE FilterRoots(_, _, _)
FilterRoots(n, tgts, i) ==
    IF i > n THEN <<>>
    ELSE IF i \in tgts THEN FilterRoots(n, tgts, i + 1)
         ELSE <<i>> \o FilterRoots(n, tgts, i + 1)

\* the filter alone, without the first node to fall back on
rootsUntargeted(ns, es) == FilterRoots(Len(ns), targetIds(es), 1)

findRootNodes(ns, es) ==
    LET roots == FilterRoots(Len(ns), targetIds(es), 1)
    IN IF Len(roots) > 0 THEN roots ELSE IF Len(ns) > 0 THEN <<1>> ELSE <<>>

\* rootNodes.length > 0 ? rootNodes[0] : nodes[0]   (0 when there is no node)
firstRoot(ns, es) ==
    LET roots == findRootNodes(ns, es) IN IF Len(roots) > 0 THEN roots[1] ELSE 0

\* The ids a recursive walk over children calls itself on, starting at id
RECURSIVE Descend(_, _)
Descend(seen, frontier) ==
    LET next == UNION {{children[m][k] : k \in 1..Len(children[m])} : m \in frontier}
    IN IF next \subseteq seen THEN seen ELSE Descend(seen \cup next, next \ seen)

Descendants(id) == Descend({}, {id})

\* calcSubtreeHeight, initialLayout, moveSubtreeHorizontally and positionChildren call
\* themselves on every child and keep no visited set: the walk from id ends only if no
\* cycle can be reached from id; otherwise the call stack overflows (RangeError)
RecursesForever(id) ==
    \E m \in Descendants(id) \cup {id} : m \in Descendants(m)

---------------------------------------------------------------------------
(* Geometry *)

nodesOverlap(pos1, size1, pos2, size2, padding) ==
    ~ (\/ pos1.x + size1.width + padding <= pos2.x
       \/ pos2.x + size2.width + padding <= pos1.x
       \/ pos1.y + size1.height + padding <= pos2.y
       \/ pos2.y + size2.height + padding <= pos1.y)

\* horizontalLayout.getNodeSize: measured ?? data ?? default
getNodeSize(id) ==
    [width  |-> Px(Coalesce(nodes[id].mw, Coalesce(nodes[id].dw, nodeWidth))),
     height |-> Px(Coalesce(nodes[id].mh, Coalesce(nodes[id].dh, nodeHeight)))]

\* radialLayout.getNodeSize and the dagre sizes: measured ?? default
measuredSize(id) ==
    [width  |-> Px(Coalesce(nodes[id].mw, nodeWidth)),
     height |-> Px(Coalesce(nodes[id].mh, nodeHeight))]

getNodeBounds(pos, id) ==
    LET size == getNodeSize(id)
    IN [x |-> pos[id].x - Half(size.width), y |-> pos[id].y - Half(size.height),
        width |-> size.width, height |-> size.height]

---------------------------------------------------------------------------
(* Maps kept in insertion order: positions.set / handlePositions.set *)

setPosition(st, id, x, y) ==
    [st EXCEPT !.pos = [@ EXCEPT ![id] = [x |-> x, y |-> y]],
               !.order = IF Has(@, id) THEN @ ELSE Append(@, id)]

setHandles(st, id, target, source) ==
    [st EXCEPT !.hp = [@ EXCEPT ![id] = [target |-> target, source |-> source]]]

RECURSIVE SumSeq(_, _)
SumSeq(s, k) == IF k = 0 THEN 0 ELSE s[k] + SumSeq(s, k - 1)

---------------------------------------------------------------------------
(* horizontalLayout: subtree heights and the initial compact layout *)

RECURSIVE calcSubtreeHeight(_)
RECURSIVE SumSubtreeHeights(_, _)

\* totalHeight of the forEach over kids: each subtree height, and the spacing after
\* every kid but the last
SumSubtreeHeights(kids, k) ==
    IF k > Len(kids) THEN 0
    ELSE calcSubtreeHeight(kids[k])
         + (IF k < Len(kids) THEN Px(baseVerticalSpacing) ELSE 0)
         + SumSubtreeHeights(kids, k + 1)

calcSubtreeHeight(nodeId) ==
    LET kids == children[nodeId]
        nodeSize == getNodeSize(nodeId)
    IN IF Len(kids) = 0 THEN nodeSize.height
       ELSE Max(nodeSize.height, SumSubtreeHeights(kids, 1))

\* childHeights.reduce(sum) + (kids.length > 1 ? (kids.length - 1) * spacing : 0)
totalHeightOf(heights) ==
    SumSeq(heights, Len(heights))
    + (IF Len(heights) > 1 THEN (Len(heights) - 1) * Px(baseVerticalSpacing) ELSE 0)

sideStep(dir) == IF dir = "left" THEN 0 - Px(horizontalSpacing) ELSE Px(horizontalSpacing)

RECURSIVE initialLayout(_, _, _, _, _)
RECURSIVE layoutKids(_, _, _, _, _, _, _)

\* kids.forEach: each kid centred in its slice, then currentY moves past the slice
layoutKids(st, kids, heights, index, nextX, currentY, dir) ==
    IF index > Len(kids) THEN st
    ELSE layoutKids(
             initialLayout(st, kids[index], nextX, currentY + Half(heights[index]), dir),
             kids, heights, index + 1, nextX,
             currentY + heights[index] + Px(baseVerticalSpacing), dir)

initialLayout(st, nodeId, x, parentY, dir) ==
    LET kids == children[nodeId]
        st1 == setHandles(setPosition(st, nodeId, x, parentY), nodeId,
                          IF dir = "left" THEN "right" ELSE "left",
                          IF dir = "left" THEN "left" ELSE "right")
    IN IF Len(kids) = 0 THEN st1
       ELSE LET childHeights == [k \in 1..Len(kids) |-> calcSubtreeHeight(kids[k])]
                totalChildrenHeight == totalHeightOf(childHeights)
            IN layoutKids(st1, kids, childHeights, 1, x + sideStep(dir),
                          parentY - Half(totalChildrenHeight), dir)

\* the first edge from the root to childId: edges.find(...)
RECURSIVE findEdge(_, _, _)
findEdge(s, t, k) ==
    IF k > Len(edges) THEN 0
    ELSE IF edges[k].source = s /\ edges[k].target = t THEN k ELSE findEdge(s, t, k + 1)

\* the side read from the input positions alone, the edge's sourceHandle ignored: a
\* faulty variant of sideOfRootChild, against which C11 is tested
sideByPosition(root, childId) ==
    IF positionX(childId) + Half(measuredSize(childId).width)
         < positionX(root) + Half(measuredSize(root).width)
    THEN "left" ELSE "right"

\* The side of a root child: the edge's sourceHandle, else the child's current centre
\* against the root's current centre (measured width ?? nodeWidth)
sideOfRootChild(root, childId) ==
    LET e == findEdge(root, childId, 1)
        handle == IF e = 0 THEN "none" ELSE edges[e].sourceHandle
        childX == positionX(childId) + Half(measuredSize(childId).width)
        rootX2 == positionX(root) + Half(measuredSize(root).width)
    IN IF handle = "left" THEN "left"
       ELSE IF handle = "right" THEN "right"
       ELSE IF childX < rootX2 THEN "left" ELSE "right"

RECURSIVE selectSide(_, _, _, _)
selectSide(root, kids, side, k) ==
    IF k > Len(kids) THEN <<>>
    ELSE IF sideOfRootChild(root, kids[k]) = side
         THEN <<kids[k]>> \o selectSide(root, kids, side, k + 1)
         ELSE selectSide(root, kids, side, k + 1)

leftChildren(root) == selectSide(root, children[root], "left", 1)
rightChildren(root) == selectSide(root, children[root], "right", 1)

\* if (group.length > 0) { heights; nextX; currentY = rootY - total / 2; forEach initialLayout }
layoutSide(st, group, dir) ==
    IF Len(group) = 0 THEN st
    ELSE LET heights == [k \in 1..Len(group) |-> calcSubtreeHeight(group[k])]
         IN layoutKids(st, group, heights, 1, Px(rootX) + sideStep(dir),
                       Px(rootY) - Half(totalHeightOf(heights)), dir)

\* "Center root based on children positions": the middle of the top-most top edge
\* and the bottom-most bottom edge of the root's children
centerRoot(st, root, group) ==
    IF Len(group) = 0 THEN st
    ELSE LET tops == {st.pos[group[k]].y - Half(getNodeSize(group[k]).height) : k \in 1..Len(group)}
             bottoms == {st.pos[group[k]].y + Half(getNodeSize(group[k]).height) : k \in 1..Len(group)}
             minY == CHOOSE v \in tops : \A w \in tops : v <= w
             maxY == CHOOSE v \in bottoms : \A w \in bottoms : v >= w
         IN setPosition(st, root, Px(rootX), Half(minY + maxY))

\* horizontalLayout from the root choice to the call of resolveOverlaps
initialPlacement(root) ==
    LET st0 == [pos |-> [id \in NodeIds |-> [x |-> 0, y |-> 0]], order |-> <<>>,
                hp |-> [id \in NodeIds |-> [target |-> "none", source |-> "none"]]]
        st1 == setHandles(setPosition(st0, root, Px(rootX), Px(rootY)), root, "left", "right")
        st2 == layoutSide(st1, leftChildren(root), "left")
        st3 == layoutSide(st2, rightChildren(root), "right")
    IN centerRoot(st3, root, leftChildren(root) \o rightChildren(root))

---------------------------------------------------------------------------
(* horizontalLayout: resolveOverlaps *)

checkOverlap(pos, order, nodeId1, nodeId2) ==
    /\ Has(order, nodeId1)
    /\ Has(order, nodeId2)
    /\ LET bounds1 == getNodeBounds(pos, nodeId1)
           bounds2 == getNodeBounds(pos, nodeId2)
       IN nodesOverlap(bounds1, bounds1, bounds2, bounds2, Px(minPadding))

RECURSIVE moveKids(_, _, _, _, _)
moveKids(pos, order, kids, k, deltaY) ==
    IF k > Len(kids) THEN pos
    ELSE moveKids(IF Has(order, kids[k])
                  THEN [pos EXCEPT ![kids[k]].y = @ + deltaY] ELSE pos,
                  order, kids, k + 1, deltaY)

\* the node and its direct children only, each child once per entry in the child list
moveNodeWithDirectChildren(pos, order, nodeId, deltaY) ==
    IF ~ Has(order, nodeId) THEN pos
    ELSE moveKids([pos EXCEPT ![nodeId].y = @ + deltaY], order, children[nodeId], 1, deltaY)

\* Array.prototype.sort((a, b) => positions.get(a).y - positions.get(b).y): stable
RECURSIVE insertByY(_, _, _)
insertByY(sorted, id, pos) ==
    IF Len(sorted) = 0 THEN <<id>>
    ELSE IF pos[sorted[Len(sorted)]].y <= pos[id].y THEN Append(sorted, id)
         ELSE Append(insertByY(SubSeq(sorted, 1, Len(sorted) - 1), id, pos), sorted[Len(sorted)])

RECURSIVE sortByY(_, _, _)
sortByY(ids, pos, k) ==
    IF k = 0 THEN <<>> ELSE insertByY(sortByY(ids, pos, k - 1), ids[k], pos)

\* the keys of a Map filled by a forEach over positions, keyOf[id] being the key of
\* id: first appearance order
RECURSIVE keysInOrder(_, _, _)
keysInOrder(order, keyOf, k) ==
    IF k = 0 THEN <<>>
    ELSE LET before == keysInOrder(order, keyOf, k - 1)
         IN IF Has(before, keyOf[order[k]]) THEN before
            ELSE Append(before, keyOf[order[k]])

RECURSIVE idsWithKey(_, _, _, _)
idsWithKey(order, keyOf, v, k) ==
    IF k > Len(order) THEN <<>>
    ELSE IF keyOf[order[k]] = v THEN <<order[k]>> \o idsWithKey(order, keyOf, v, k + 1)
         ELSE idsWithKey(order, keyOf, v, k + 1)

pushDown(acc, order, id1, id2) ==
    LET bounds1 == getNodeBounds(acc.pos, id1)
        bounds2 == getNodeBounds(acc.pos, id2)
        neededSpace == (bounds1.y + bounds1.height + Px(minPadding)) - bounds2.y
    IN [pos |-> IF neededSpace > 0
                THEN moveNodeWithDirectChildren(acc.pos, order, id2, neededSpace + Px(5))
                ELSE acc.pos,
        has |-> TRUE]

\* for (i...) over consecutive siblings, re-sorting after every move
RECURSIVE siblingLoop(_, _, _, _)
siblingLoop(acc, order, ids, i) ==
    IF i > Len(ids) - 1 THEN acc
    ELSE IF checkOverlap(acc.pos, order, ids[i], ids[i + 1])
         THEN LET moved == pushDown(acc, order, ids[i], ids[i + 1])
              IN siblingLoop(moved, order, sortByY(ids, moved.pos, Len(ids)), i + 1)
         ELSE siblingLoop(acc, order, ids, i + 1)

RECURSIVE siblingGroups(_, _, _, _)
siblingGroups(acc, order, parents, k) ==
    IF k > Len(parents) THEN acc
    ELSE LET siblingIds == idsWithKey(order, parent, parents[k], 1)
         IN siblingGroups(
                IF parents[k] = 0 \/ Len(siblingIds) < 2 THEN acc
                ELSE siblingLoop(acc, order, sortByY(siblingIds, acc.pos, Len(siblingIds)), 1),
                order, parents, k + 1)

\* Math.round(pos.x / 10) * 10, in Px units
RoundDiv(a, b) == (2 * a + b) \div (2 * b)
columnOf(pos, id) == RoundDiv(pos[id].x, Px(10)) * Px(10)
columnsOf(pos) == [id \in NodeIds |-> columnOf(pos, id)]

\* for (i...) over consecutive nodes of a column: parent/child and sibling pairs skipped
RECURSIVE columnLoop(_, _, _, _)
columnLoop(acc, order, ids, i) ==
    IF i > Len(ids) - 1 THEN acc
    ELSE LET id1 == ids[i]
             id2 == ids[i + 1]
         IN IF \/ parent[id2] = id1
               \/ parent[id1] = id2
               \/ (parent[id1] # 0 /\ parent[id1] = parent[id2])
            THEN columnLoop(acc, order, ids, i + 1)
            ELSE IF checkOverlap(acc.pos, order, id1, id2)
                 THEN columnLoop(pushDown(acc, order, id1, id2), order, ids, i + 1)
                 ELSE columnLoop(acc, order, ids, i + 1)

RECURSIVE columnGroups(_, _, _, _, _)
columnGroups(acc, order, colPos, cols, k) ==
    IF k > Len(cols) THEN acc
    ELSE LET nodeIds == idsWithKey(order, columnsOf(colPos), cols[k], 1)
         IN columnGroups(
                IF Len(nodeIds) < 2 THEN acc
                ELSE columnLoop(acc, order, sortByY(nodeIds, acc.pos, Len(nodeIds)), 1),
                order, colPos, cols, k + 1)

\* One pass of the while loop of resolveOverlaps: [pos, has]
resolveIteration(pos, order) ==
    LET sib == siblingGroups([pos |-> pos, has |-> FALSE], order,
                             keysInOrder(order, parent, Len(order)), 1)
    IN columnGroups(sib, order, sib.pos,
                    keysInOrder(order, columnsOf(sib.pos), Len(order)), 1)

---------------------------------------------------------------------------
(* horizontalLayout: the parent/child pass after resolveOverlaps *)

RECURSIVE moveSubtreeHorizontally(_, _, _, _)
RECURSIVE moveSubtrees(_, _, _, _, _)

moveSubtrees(pos, order, kids, k, deltaX) ==
    IF k > Len(kids) THEN pos
    ELSE moveSubtrees(moveSubtreeHorizontally(pos, order, kids[k], deltaX),
                      order, kids, k + 1, deltaX)

moveSubtreeHorizontally(pos, order, nodeId, deltaX) ==
    moveSubtrees(IF Has(order, nodeId) THEN [pos EXCEPT ![nodeId].x = @ + deltaX] ELSE pos,
                 order, children[nodeId], 1, deltaX)

\* a pass that moves nothing
noNudge(pos, order, parentId, childId, iter) == pos

\* while (iter < maxParentChildIterations) for one edge
RECURSIVE nudgeEdge(_, _, _, _, _)
nudgeEdge(pos, order, parentId, childId, iter) ==
    IF iter >= maxParentChildIterations THEN pos
    ELSE IF ~ Has(order, parentId) \/ ~ Has(order, childId) THEN pos
    ELSE LET parentBounds == getNodeBounds(pos, parentId)
             childBounds == getNodeBounds(pos, childId)
             parentCenterX == parentBounds.x + Half(parentBounds.width)
             childCenterX == childBounds.x + Half(childBounds.width)
             dirSign == IF childCenterX >= parentCenterX THEN 1 ELSE 0 - 1
         IN IF ~ nodesOverlap(parentBounds, parentBounds, childBounds, childBounds,
                              Px(parentChildPaddingX))
            THEN pos
            ELSE nudgeEdge(moveSubtreeHorizontally(pos, order, childId,
                                                   dirSign * Px(parentChildStepX)),
                           order, parentId, childId, iter + 1)

\* iter when the while loop of one edge is left
RECURSIVE nudgeEdgeIter(_, _, _, _, _)
nudgeEdgeIter(pos, order, parentId, childId, iter) ==
    IF iter >= maxParentChildIterations THEN iter
    ELSE IF ~ Has(order, parentId) \/ ~ Has(order, childId) THEN iter
    ELSE LET parentBounds == getNodeBounds(pos, parentId)
             childBounds == getNodeBounds(pos, childId)
             parentCenterX == parentBounds.x + Half(parentBounds.width)
             childCenterX == childBounds.x + Half(childBounds.width)
             dirSign == IF childCenterX >= parentCenterX THEN 1 ELSE 0 - 1
         IN IF ~ nodesOverlap(parentBounds, parentBounds, childBounds, childBounds,
                              Px(parentChildPaddingX))
            THEN iter
            ELSE nudgeEdgeIter(moveSubtreeHorizontally(pos, order, childId,
                                                       dirSign * Px(parentChildStepX)),
                               order, parentId, childId, iter + 1)

RECURSIVE nudgeEdges(_, _, _)
nudgeEdges(pos, order, k) ==
    IF k > Len(edges) THEN pos
    ELSE nudgeEdges(nudgeEdge(pos, order, edges[k].source, edges[k].target, 0), order, k + 1)

\* positions and handles of the nodes no walk reached: all at (rootX + 500, rootY)
RECURSIVE placeOrphans(_, _)
placeOrphans(st, id) ==
    IF id > Len(nodes) THEN st
    ELSE placeOrphans(
             IF Has(st.order, id) THEN st
             ELSE setHandles(setPosition(st, id, Px(rootX) + Px(500), Px(rootY)),
                             id, "left", "right"),
             id + 1)

\* nodes.map: the node with its handle sides and its top-left corner
horizontalNewNodes(pos, hp) ==
    [id \in NodeIds |->
        LET nodeSize == getNodeSize(id)
        IN [id |-> id,
            targetPosition |-> hp[id].target,
            sourcePosition |-> hp[id].source,
            x |-> pos[id].x - Half(nodeSize.width),
            y |-> pos[id].y - Half(nodeSize.height),
            width |-> nodeSize.width,
            height |-> nodeSize.height]]

\* edges.map: the root's edges take the side the target ended on, the others the
\* source node's sourcePosition; the target handle follows the target's targetPosition
horizontalSourceHandle(edge, root, pos, outNodes) ==
    IF edge.source = root
    THEN (IF pos[edge.target].x < Px(rootX) THEN "left" ELSE "right")
    ELSE (IF outNodes[edge.source].sourcePosition = "left" THEN "left" ELSE "right")

\* the handle side read from the wrong end of the edge: a faulty variant of
\* horizontalTargetHandle, against which C6 is tested
targetHandleOfSource(edge, outNodes) ==
    IF outNodes[edge.source].targetPosition = "left" THEN "left" ELSE "right"

horizontalTargetHandle(edge, outNodes) ==
    IF outNodes[edge.target].targetPosition = "left" THEN "left" ELSE "right"

horizontalNewEdges(root, pos, outNodes) ==
    [k \in 1..Len(edges) |->
        [source |-> edges[k].source,
         target |-> edges[k].target,
         sourceHandle |-> horizontalSourceHandle(edges[k], root, pos, outNodes),
         targetHandle |-> horizontalTargetHandle(edges[k], outNodes)]]

---------------------------------------------------------------------------
(* radialLayout: angles in 1/10000 radian, cosines and sines in 1/10000 *)

baseRadius == 350
radiusIncrement == 280
minAngleSpacing == 3000
parentChildPadding == 40
parentChildStep == 40
TwoPi == 62832
HalfPi == 15708
QuarterPi == 7854
Unit == 10000

Abs(v) == IF v < 0 THEN 0 - v ELSE v

\* the product of two numbers in 1/10000, rounded
Mul(a, b) == (a * b + Unit \div 2) \div Unit

\* Math.sin and Math.cos on [0, pi/4] by their Taylor polynomials
sinT(x) ==
    LET x2 == Mul(x, x)
        x3 == Mul(x2, x)
        x5 == Mul(x3, x2)
        x7 == Mul(x5, x2)
    IN x - x3 \div 6 + x5 \div 120 - x7 \div 5040

cosT(x) ==
    LET x2 == Mul(x, x)
        x4 == Mul(x2, x2)
        x6 == Mul(x4, x2)
    IN Unit - x2 \div 2 + x4 \div 24 - x6 \div 720

\* on [0, pi/2)
sinQ(r) == IF r <= QuarterPi THEN sinT(r) ELSE cosT(HalfPi - r)
cosQ(r) == IF r <= QuarterPi THEN cosT(r) ELSE sinT(HalfPi - r)

\* Math.sin(angle), Math.cos(angle): quadrant, then the remainder
sin(angle) ==
    LET a == angle % TwoPi
        q == a \div HalfPi
        r == a - q * HalfPi
    IN IF q = 0 THEN sinQ(r)
       ELSE IF q = 1 THEN cosQ(r)
       ELSE IF q = 2 THEN 0 - sinQ(r)
       ELSE 0 - cosQ(r)

cos(angle) ==
    LET a == angle % TwoPi
        q == a \div HalfPi
        r == a - q * HalfPi
    IN IF q = 0 THEN cosQ(r)
       ELSE IF q = 1 THEN 0 - sinQ(r)
       ELSE IF q = 2 THEN 0 - cosQ(r)
       ELSE sinQ(r)

\* Math.cos(angle) * radius, a length in Px units
Scale(c, len) ==
    LET m == (Abs(c) * (len \div 100)) \div 100 + (Abs(c) * (len % 100)) \div Unit
    IN IF c < 0 THEN 0 - m ELSE m

\* Math.atan2 and the sums it is applied to are rounded: a direction is known up to a
\* turn of 1/Turn radian either way, and a sum within Tolerance of zero has none
Turn == 500
Tolerance == 50

\* the four results with the source side of the lower quarter left where the first
\* quarter has it
QuartersSourceKept ==
    <<[target |-> "left", source |-> "right"], [target |-> "top", source |-> "right"],
      [target |-> "right", source |-> "left"], [target |-> "bottom", source |-> "top"]>>

Quarters ==
    <<[target |-> "left", source |-> "right"], [target |-> "top", source |-> "bottom"],
      [target |-> "right", source |-> "left"], [target |-> "bottom", source |-> "top"]>>

\* the quarter the direction (dx, dy) points into: each quarter is closed at its lower
\* and open at its upper diagonal, as the comparisons with 7pi/4, pi/4, 3pi/4, 5pi/4 are
quarterOf(dy, dx) ==
    IF (dx = 0 /\ dy = 0) \/ (dx > 0 /\ 0 - dx <= dy /\ dy < dx) THEN Quarters[1]
    ELSE IF dy > 0 /\ 0 - dy < dx /\ dx <= dy THEN Quarters[2]
    ELSE IF dx < 0 /\ dx < dy /\ dy <= 0 - dx THEN Quarters[3]
    ELSE Quarters[4]

\* getHandlePositionFromAngle(Math.atan2(dy, dx)): the results the rounding can give.
\* A direction on a diagonal falls into either quarter next to it, a direction that
\* has none into any quarter, every other direction into its own quarter
getHandlePositionFromAngle(dy, dx) ==
    IF Abs(dx) <= Tolerance /\ Abs(dy) <= Tolerance
    THEN {Quarters[q] : q \in 1..4}
    ELSE {quarterOf(dy * Turn + dx, dx * Turn - dy), quarterOf(dy * Turn - dx, dx * Turn + dy)}

halfDiagonal(id) == Half(Max(measuredSize(id).width, measuredSize(id).height))

\* calculateLevels: depth first, skipping what any earlier walk has visited
RECURSIVE calculateLevels(_, _, _)
RECURSIVE levelKids(_, _, _, _)

levelKids(acc, kids, k, level) ==
    IF k > Len(kids) THEN acc
    ELSE levelKids(calculateLevels(acc, kids[k], level), kids, k + 1, level)

calculateLevels(acc, nodeId, level) ==
    IF nodeId \in acc.visited THEN acc
    ELSE levelKids([visited |-> acc.visited \cup {nodeId},
                    levels |-> [acc.levels EXCEPT ![nodeId] = level]],
                   children[nodeId], 1, level + 1)

maxChildHalfDiagonal(kids) ==
    LET hs == {halfDiagonal(kids[k]) : k \in 1..Len(kids)}
    IN CHOOSE v \in hs : \A w \in hs : v >= w

\* radius of the children of parentId
radiusOf(levels, parentId) ==
    Max(Px(baseRadius) + levels[parentId] * Px(radiusIncrement),
        halfDiagonal(parentId) + maxChildHalfDiagonal(children[parentId]) + Px(80))

angleStepOf(n, startAngle, endAngle) == Max((endAngle - startAngle) \div n, minAngleSpacing)

\* startAngle + angleStep * (index + 0.5), index counted from 1 here
childAngle(n, startAngle, endAngle, k) ==
    startAngle + (angleStepOf(n, startAngle, endAngle) * (2 * k - 1)) \div 2

childAngleSpan(n, startAngle, endAngle) ==
    Min((angleStepOf(n, startAngle, endAngle) * 9) \div 10, (endAngle - startAngle) \div n)

\* the arguments of the Math.atan2 whose quarter becomes the handles of id
setAtan2(st, id, dy, dx) == [st EXCEPT !.atan2[id] = [dy |-> dy, dx |-> dx, known |-> TRUE]]

RECURSIVE positionChildren(_, _, _, _, _)
RECURSIVE positionKids(_, _, _, _, _, _, _)

\* nodeChildren.forEach: position, handles, then the child's own children
positionKids(st, levels, parentId, parentPos, startAngle, endAngle, k) ==
    LET kids == children[parentId]
        n == Len(kids)
    IN IF k > n THEN st
       ELSE LET angle == childAngle(n, startAngle, endAngle, k)
                radius == radiusOf(levels, parentId)
                x == parentPos.x + Scale(cos(angle), radius)
                y == parentPos.y + Scale(sin(angle), radius)
                span == childAngleSpan(n, startAngle, endAngle)
                st1 == setAtan2(setPosition(st, kids[k], x, y), kids[k],
                                parentPos.y - y, parentPos.x - x)
                st2 == positionChildren(st1, levels, kids[k],
                                        angle - Half(span), angle + Half(span))
            IN positionKids(st2, levels, parentId, parentPos, startAngle, endAngle, k + 1)

positionChildren(st, levels, parentId, startAngle, endAngle) ==
    IF Len(children[parentId]) = 0 THEN st
    ELSE positionKids(st, levels, parentId, st.pos[parentId], startAngle, endAngle, 1)

\* layoutTree(rootId, offsetX, offsetY); st carries visited as well.  The handles of a
\* root with children are the quarter of Math.atan2(sumY, sumX), the sums of the sines
\* and cosines of its children's angles; a root without children keeps left / right
layoutTree(st, root, offsetX, offsetY) ==
    LET lv == calculateLevels([visited |-> st.visited, levels |-> [id \in NodeIds |-> 0]],
                              root, 0)
        st1 == setPosition(st, root, offsetX, offsetY)
        st2 == positionChildren(st1, lv.levels, root, 0, TwoPi)
        n == Len(children[root])
        sumX == SumSeq([k \in 1..n |-> cos(childAngle(n, 0, TwoPi, k))], n)
        sumY == SumSeq([k \in 1..n |-> sin(childAngle(n, 0, TwoPi, k))], n)
    IN [(IF n > 0 THEN setAtan2(st2, root, sumY, sumX) ELSE st2) EXCEPT !.visited = lv.visited]

\* roots.forEach: layoutTree(root.id, currentOffset + 600, 600); currentOffset += 1200
RECURSIVE layoutTrees(_, _, _)
layoutTrees(st, roots, k) ==
    IF k > Len(roots) THEN st
    ELSE layoutTrees(layoutTree(st, roots[k], Px(1200) * (k - 1) + Px(600), Px(600)),
                     roots, k + 1)

\* a set of ids that outlives the call
visitedBefore == visited

\* const visited = new Set<string>()
noneVisited == {}

\* the handles a node can have after the trees
handleOptions(st, id) ==
    IF id \notin st.visited THEN {[target |-> "none", source |-> "none"]}
    ELSE IF st.atan2[id].known
         THEN getHandlePositionFromAngle(st.atan2[id].dy, st.atan2[id].dx)
         ELSE {[target |-> "left", source |-> "right"]}

\* the values handlePositions can have after the trees, for the ids 1..id
RECURSIVE radialHandles(_, _)
radialHandles(st, id) ==
    IF id = 0 THEN {<<>>}
    ELSE {Append(h, o) : h \in radialHandles(st, id - 1), o \in handleOptions(st, id)}

\* !(childRight + padding <= parentLeft || childLeft - padding >= parentRight || ...)
overlapsParent(cx, cy, px, py, parentSize, childSize) ==
    ~ (\/ cx + Half(childSize.width) + Px(parentChildPadding) <= px - Half(parentSize.width)
       \/ cx - Half(childSize.width) - Px(parentChildPadding) >= px + Half(parentSize.width)
       \/ cy + Half(childSize.height) + Px(parentChildPadding) <= py - Half(parentSize.height)
       \/ cy - Half(childSize.height) - Px(parentChildPadding) >= py + Half(parentSize.height))

\* while (iter < maxParentChildIterations): the child's centre x after the loop
RECURSIVE radialShift(_, _, _, _, _, _, _, _)
radialShift(cx, cy, px, py, parentId, childId, dirSign, iter) ==
    IF iter >= maxParentChildIterations THEN cx
    ELSE IF ~ overlapsParent(cx, cy, px, py, measuredSize(parentId), measuredSize(childId))
         THEN cx
         ELSE radialShift(cx + dirSign * Px(parentChildStep), cy, px, py, parentId, childId,
                          dirSign, iter + 1)

\* iter when the while loop of one edge of radialLayout is left
RECURSIVE radialShiftIter(_, _, _, _, _, _, _, _)
radialShiftIter(cx, cy, px, py, parentId, childId, dirSign, iter) ==
    IF iter >= maxParentChildIterations THEN iter
    ELSE IF ~ overlapsParent(cx, cy, px, py, measuredSize(parentId), measuredSize(childId))
         THEN iter
         ELSE radialShiftIter(cx + dirSign * Px(parentChildStep), cy, px, py, parentId,
                              childId, dirSign, iter + 1)

\* edges.forEach of the parent/child pass of radialLayout: only the child is shifted
RECURSIVE radialNudgeEdges(_, _, _)
radialNudgeEdges(pos, order, k) ==
    IF k > Len(edges) THEN pos
    ELSE LET parentId == edges[k].source
             childId == edges[k].target
         IN radialNudgeEdges(
                IF ~ Has(order, parentId) \/ ~ Has(order, childId) THEN pos
                ELSE [pos EXCEPT ![childId].x =
                         radialShift(pos[childId].x, pos[childId].y, pos[parentId].x,
                                     pos[parentId].y, parentId, childId,
                                     IF pos[childId].x >= pos[parentId].x THEN 1 ELSE 0 - 1,
                                     0)],
                order, k + 1)

\* nodes.forEach: each unvisited node at (currentOffset + 600, 600), 400 further each time
RECURSIVE radialOrphans(_, _, _)
radialOrphans(st, id, currentOffset) ==
    IF id > Len(nodes) THEN st
    ELSE IF id \in st.visited THEN radialOrphans(st, id + 1, currentOffset)
    ELSE radialOrphans(setHandles(setPosition(st, id, currentOffset + Px(600), Px(600)),
                                  id, "left", "right"),
                       id + 1, currentOffset + Px(400))

\* nodes.map of radialLayout
radialNewNodes(pos, hp) ==
    [id \in NodeIds |->
        [id |-> id,
         targetPosition |-> hp[id].target,
         sourcePosition |-> hp[id].source,
         x |-> pos[id].x - Half(measuredSize(id).width),
         y |-> pos[id].y - Half(measuredSize(id).height),
         width |-> measuredSize(id).width,
         height |-> measuredSize(id).height]]

---------------------------------------------------------------------------
(* getLayoutedElements, direction 'TB': the rank layout around dagre *)

minVerticalSpacing == 250
verticalRange == 1000

\* topSideNodes: the nodes whose input centre is above the root's, and the targets of
\* the edges whose sourceHandle is 'top'
topSideNodes(root) ==
    {id \in NodeIds :
        /\ id # root
        /\ positionY(id) + Half(measuredSize(id).height)
             < positionY(root) + Half(measuredSize(root).height)}
    \cup {edges[k].target : k \in {j \in 1..Len(edges) : edges[j].sourceHandle = "top"}}

levelOf(id) == nodes[id].level

minLevel ==
    CHOOSE v \in {levelOf(id) : id \in NodeIds} : \A id \in NodeIds : v <= levelOf(id)

\* nodesInLevel after the sort by the dagre x: the ids of the level in the order they
\* have in sorted, a sequence holding every node once
RECURSIVE nodesInLevel(_, _, _)
nodesInLevel(sorted, level, k) ==
    IF k > Len(sorted) THEN <<>>
    ELSE IF levelOf(sorted[k]) = level
         THEN <<sorted[k]>> \o nodesInLevel(sorted, level, k + 1)
         ELSE nodesInLevel(sorted, level, k + 1)

indexIn(s, id) == CHOOSE k \in 1..Len(s) : s[k] = id

\* startPos + index * spacing with spacing = Math.max(verticalRange / (n + 1), 100) and
\* startPos = 200 + spacing, index counted from 1 here; rounded down to a Px unit
distributed(n, index) ==
    IF Px(verticalRange) \div (n + 1) >= Px(100)
    THEN Px(200) + (index * Px(verticalRange)) \div (n + 1)
    ELSE Px(200) + index * Px(100)

\* the dagre node of id after "Evenly distribute nodes within each level"
redistributed(sorted, id) ==
    LET group == nodesInLevel(sorted, levelOf(id), 1)
        basePos == (levelOf(id) - minLevel) * Px(minVerticalSpacing) + Px(300)
    IN IF Len(group) = 1 THEN [x |-> Px(400), y |-> basePos]
       ELSE [x |-> distributed(Len(group), indexIn(group, id)), y |-> basePos]

\* finalY with no flip at all
unflippedFinalY(pos, root, top, id) == pos[id].y - Half(measuredSize(id).height)

\* finalY of newNodes.map: the flips against the root's row
verticalFinalY(pos, root, top, id) ==
    LET rootYpos == pos[root].y
        nodeY == pos[id].y
        h == measuredSize(id).height
    IN IF id = root THEN nodeY - Half(h)
       ELSE IF id \in top /\ ~ (nodeY < rootYpos)
            THEN rootYpos - (nodeY - rootYpos) - h
       ELSE IF id \notin top /\ nodeY < rootYpos
            THEN rootYpos + (rootYpos - nodeY) - Half(h)
       ELSE nodeY - Half(h)

verticalNewNodes(pos, root, top) ==
    [id \in NodeIds |->
        [id |-> id,
         targetPosition |-> IF id # root /\ id \in top THEN "bottom" ELSE "top",
         sourcePosition |-> IF id # root /\ id \in top THEN "top" ELSE "bottom",
         x |-> pos[id].x - Half(measuredSize(id).width),
         y |-> verticalFinalY(pos, root, top, id),
         width |-> measuredSize(id).width,
         height |-> measuredSize(id).height]]

\* sourceHandle = edge.sourceHandle || 'bottom' for the root's edges, else by the source
\* node's sourcePosition
verticalSourceHandle(edge, root, outNodes) ==
    IF edge.source = root
    THEN (IF edge.sourceHandle = "none" THEN "bottom" ELSE edge.sourceHandle)
    ELSE IF outNodes[edge.source].sourcePosition = "top" THEN "top"
    ELSE IF outNodes[edge.source].sourcePosition = "bottom" THEN "bottom"
    ELSE edge.sourceHandle

verticalTargetHandle(edge, outNodes) ==
    IF outNodes[edge.target].targetPosition = "top" THEN "top"
    ELSE IF outNodes[edge.target].targetPosition = "bottom" THEN "bottom"
    ELSE edge.targetHandle

verticalNewEdges(root, outNodes) ==
    [k \in 1..Len(edges) |->
        [source |-> edges[k].source,
         target |-> edges[k].target,
         sourceHandle |-> verticalSourceHandle(edges[k], root, outNodes),
         targetHandle |-> verticalTargetHandle(edges[k], outNodes)]]

---------------------------------------------------------------------------
(* The arguments of a call: graphs over at most MaxNodes nodes, fans of at most
   MaxFan children, a few box sizes, one hinted edge or one displaced node *)

Node(mw, mh, x, y, level) ==
    [mw |-> mw, mh |-> mh, dw |-> 0, dh |-> 0, x |-> x, y |-> y, scale |-> Px(1),
     level |-> level]

Edge(s, t, sh) == [source |-> s, target |-> t, sourceHandle |-> sh, targetHandle |-> "none"]

\* forests over 1..n: pv[i] is the parent of i (0: a root), always a smaller id
ParentVectors(n) == {pv \in [1..n -> 0..n] : \A i \in 1..n : pv[i] < i}

RECURSIVE ForestEdges(_, _, _)
ForestEdges(pv, n, i) ==
    IF i > n THEN <<>>
    ELSE IF pv[i] = 0 THEN ForestEdges(pv, n, i + 1)
         ELSE <<Edge(pv[i], i, "none")>> \o ForestEdges(pv, n, i + 1)

RECURSIVE depthIn(_, _)
depthIn(pv, i) == IF pv[i] = 0 THEN 0 ELSE 1 + depthIn(pv, pv[i])

\* measured sizes drawn for a node: absent, a large square, a wide box
SizeSet == {<<0, 0>>, <<1000, 1000>>, <<1600, 80>>}

Sides == {"left", "right", "top", "bottom"}

Directions == {"LR", "TB", "radial"}

DefaultNodes(pv, n) == [i \in 1..n |-> Node(0, 0, 0, 0, depthIn(pv, i))]

ExtraEdges(n) == {<<Edge(s, t, "none")>> : s \in 1..n, t \in 1..n}

\* a forest with its depth as data.level
ForestCases(n) ==
    {[direction |-> d, nodes |-> DefaultNodes(pv, n), edges |-> ForestEdges(pv, n, 1)] :
        d \in Directions, pv \in ParentVectors(n)}

\* a forest and one more edge between any two of its nodes: a second parent, a cycle,
\* a self-loop, a doubled edge
GraphCases(n) ==
    {[direction |-> d, nodes |-> DefaultNodes(pv, n),
      edges |-> ForestEdges(pv, n, 1) \o extra] :
        d \in Directions, pv \in ParentVectors(n), extra \in ExtraEdges(n)}

\* the same with measured sizes for nodes 1 and 2, laid out horizontally
SizedCases(n) ==
    {[direction |-> "LR",
      nodes |-> [i \in 1..n |->
                    Node(IF i = 1 THEN s1[1] ELSE IF i = 2 THEN s2[1] ELSE 0,
                         IF i = 1 THEN s1[2] ELSE IF i = 2 THEN s2[2] ELSE 0,
                         0, 0, depthIn(pv, i))],
      edges |-> ForestEdges(pv, n, 1) \o extra] :
        pv \in ParentVectors(n), extra \in ExtraEdges(n), s1 \in SizeSet, s2 \in SizeSet}

\* a forest whose edge h, if there is one, carries a sourceHandle
withHandle(es, h, side) ==
    [k \in 1..Len(es) |-> IF k = h THEN [es[k] EXCEPT !.sourceHandle = side] ELSE es[k]]

HintCases(n) ==
    {[direction |-> d, nodes |-> DefaultNodes(pv, n),
      edges |-> withHandle(ForestEdges(pv, n, 1), h, side)] :
        d \in {"LR", "TB"}, pv \in ParentVectors(n), h \in 1..(n - 1), side \in Sides}

\* a forest whose node j was dragged to the upper left of the others
DisplacedCases(n) ==
    {[direction |-> d,
      nodes |-> [i \in 1..n |-> Node(0, 0, IF i = j THEN 0 - 500 ELSE 0,
                                     IF i = j THEN 0 - 500 ELSE 0, depthIn(pv, i))],
      edges |-> ForestEdges(pv, n, 1)] :
        d \in {"LR", "TB"}, pv \in ParentVectors(n), j \in 1..n}

\* both at once, laid out horizontally: a hint on an edge and a dragged node
HintedDisplacedCases(n) ==
    {[direction |-> "LR",
      nodes |-> [i \in 1..n |-> Node(0, 0, IF i = j THEN 0 - 500 ELSE 0,
                                     IF i = j THEN 0 - 500 ELSE 0, depthIn(pv, i))],
      edges |-> withHandle(ForestEdges(pv, n, 1), h, side)] :
        pv \in ParentVectors(n), h \in 1..(n - 1), side \in {"left", "right"}, j \in 1..n}

\* a forest whose nodes carry no data.level, laid out in ranks
FlatCases(n) ==
    {[direction |-> "TB", nodes |-> [i \in 1..n |-> Node(0, 0, 0, 0, 0)],
      edges |-> ForestEdges(pv, n, 1)] : pv \in ParentVectors(n)}

\* a root with k children, node 2 with g children, sizes for the root and node 2
FanEdges(k, g) ==
    [i \in 1..(k + g) |-> IF i <= k THEN Edge(1, i + 1, "none") ELSE Edge(2, i + 1, "none")]

FanCases(k) ==
    {[direction |-> d,
      nodes |-> [i \in 1..(k + 1 + g) |->
                    Node(IF i = 1 THEN s1[1] ELSE IF i = 2 THEN s2[1] ELSE 0,
                         IF i = 1 THEN s1[2] ELSE IF i = 2 THEN s2[2] ELSE 0,
                         0, 0, IF i = 1 THEN 0 ELSE IF i <= k + 1 THEN 1 ELSE 2)],
      edges |-> FanEdges(k, g)] :
        d \in {"LR", "radial"}, g \in {0, 1, 2, 3}, s1 \in SizeSet, s2 \in SizeSet}

\* a forest whose node j stores a size on its data, with or without a measured size
DataSizedCases(n) ==
    {[direction |-> d,
      nodes |-> [i \in 1..n |->
                    IF i = j
                    THEN [Node(m[1], m[2], 0, 0, depthIn(pv, i)) EXCEPT !.dw = 400, !.dh = 120]
                    ELSE Node(0, 0, 0, 0, depthIn(pv, i))],
      edges |-> ForestEdges(pv, n, 1)] :
        d \in Directions, pv \in ParentVectors(n), j \in 1..n,
        m \in {<<0, 0>>, <<1000, 1000>>}}

Cases ==
    UNION ({ForestCases(n) : n \in 0..MaxNodes}
           \cup {GraphCases(n) : n \in 1..MaxCyclic}
           \cup {SizedCases(n) : n \in 1..MaxCyclic}
           \cup {HintCases(n) : n \in 2..MaxNodes}
           \cup {DisplacedCases(n) : n \in 1..MaxNodes}
           \cup {HintedDisplacedCases(n) : n \in 2..MaxCyclic}
           \cup {FlatCases(n) : n \in 1..MaxNodes}
           \cup {DataSizedCases(n) : n \in 1..MaxCyclic}
           \cup {FanCases(k) : k \in 1..MaxFan})

---------------------------------------------------------------------------
(* The call of getLayoutedElements, step by step *)

noPositions == [id \in NodeIds |-> [x |-> 0, y |-> 0]]
noHandles == [id \in NodeIds |-> [target |-> "none", source |-> "none"]]

\* no operation on the canvas yet
noOp == [op |-> "none", selected |-> 0]

\* before a call has returned, and before its arithmetic or dagre has run
noResult == [pc |-> "none", nodes |-> <<>>, edges |-> <<>>]
noOutcome == [known |-> FALSE, operands |-> <<>>, value |-> <<>>]

Init ==
    /\ \E c \in Cases :
          /\ direction = c.direction
          /\ nodes = c.nodes
          /\ edges = c.edges
    /\ pc = "start"
    /\ children = <<>>
    /\ parent = <<>>
    /\ rootId = 0
    /\ positions = <<>>
    /\ posOrder = <<>>
    /\ handlePositions = <<>>
    /\ visited = {}
    /\ iteration = 0
    /\ hasOverlap = FALSE
    /\ warned = FALSE
    /\ newNodes = <<>>
    /\ newEdges = <<>>
    /\ findPc = "idle"
    /\ findArgs = <<>>
    /\ bestX = 0
    /\ bestY = 0
    /\ minDistance = 0
    /\ callNo = 1
    /\ firstResult = noResult
    /\ firstOutcome = noOutcome
    /\ levelArgs = <<>>
    /\ levelQueue = <<>>
    /\ nodeLevels = <<>>
    /\ levelVisited = {}
    /\ levelPc = "idle"
    /\ mapNodes = <<>>
    /\ mapEdges = <<>>
    /\ editingNodeId = 0
    /\ lastOp = noOp

\* nodes.length === 0: horizontalLayout and radialLayout return their arguments, and
\* the rank layout maps over no node
ReturnEmpty ==
    /\ pc = "start"
    /\ Len(nodes) = 0
    /\ pc' = "returned"
    /\ newNodes' = <<>>
    /\ newEdges' = edges
    /\ UNCHANGED <<direction, nodes, edges, children, parent, rootId, positions, posOrder,
                   handlePositions, visited, iteration, hasOverlap, warned>>
    /\ UNCHANGED findVars
    /\ UNCHANGED pageVars
    /\ UNCHANGED callVars

\* the root choice and the graph: buildTree, or the nodes and edges handed to dagre
Prepare ==
    /\ pc = "start"
    /\ Len(nodes) > 0
    /\ rootId' = firstRoot(nodes, edges)
    /\ children' = buildTreeChildren(nodes, edges)
    /\ parent' = buildTreeParent(nodes, edges)
    /\ positions' = noPositions
    /\ handlePositions' = noHandles
    /\ pc' = "built"
    /\ UNCHANGED <<direction, nodes, edges, posOrder, visited, iteration, hasOverlap,
                   warned, newNodes, newEdges>>
    /\ UNCHANGED findVars
    /\ UNCHANGED pageVars
    /\ UNCHANGED callVars

\* horizontalLayout up to resolveOverlaps; the first calcSubtreeHeight of a root child
\* from which a cycle can be reached never returns
HorizontalPlace ==
    /\ pc = "built"
    /\ direction = "LR"
    /\ IF \E k \in 1..Len(children[rootId]) : RecursesForever(children[rootId][k])
       THEN /\ pc' = "thrown"
            /\ UNCHANGED <<positions, posOrder, handlePositions, iteration, hasOverlap>>
       ELSE LET st == initialPlacement(rootId)
            IN /\ positions' = st.pos
               /\ posOrder' = st.order
               /\ handlePositions' = st.hp
               /\ iteration' = 0
               /\ hasOverlap' = TRUE
               /\ pc' = "resolve"
    /\ UNCHANGED <<direction, nodes, edges, children, parent, rootId, visited, warned,
                   newNodes, newEdges>>
    /\ UNCHANGED findVars
    /\ UNCHANGED pageVars
    /\ UNCHANGED callVars

\* one iteration of while (hasOverlap && iteration < maxIterations)
ResolveStep ==
    /\ pc = "resolve"
    /\ hasOverlap /\ iteration < maxIterations
    /\ LET r == resolveIteration(positions, posOrder)
       IN /\ positions' = r.pos
          /\ hasOverlap' = r.has
    /\ iteration' = iteration + 1
    /\ UNCHANGED <<direction, nodes, edges, pc, children, parent, rootId, posOrder,
                   handlePositions, visited, warned, newNodes, newEdges>>
    /\ UNCHANGED findVars
    /\ UNCHANGED pageVars
    /\ UNCHANGED callVars

\* the loop ends; if (iteration >= maxIterations) console.warn(...)
ResolveEnd ==
    /\ pc = "resolve"
    /\ ~ (hasOverlap /\ iteration < maxIterations)
    /\ warned' = (iteration >= maxIterations)
    /\ pc' = "nudge"
    /\ UNCHANGED <<direction, nodes, edges, children, parent, rootId, positions, posOrder,
                   handlePositions, visited, iteration, hasOverlap, newNodes, newEdges>>
    /\ UNCHANGED findVars
    /\ UNCHANGED pageVars
    /\ UNCHANGED callVars

\* edges.forEach of the parent/child pass
HorizontalNudge ==
    /\ pc = "nudge"
    /\ direction = "LR"
    /\ positions' = nudgeEdges(positions, posOrder, 1)
    /\ pc' = "orphans"
    /\ UNCHANGED <<direction, nodes, edges, children, parent, rootId, posOrder,
                   handlePositions, visited, iteration, hasOverlap, warned, newNodes,
                   newEdges>>
    /\ UNCHANGED findVars
    /\ UNCHANGED pageVars
    /\ UNCHANGED callVars

\* the same return writing each position and each handle into the node and the edge it
\* was given, where the source builds { ...node } and { ...edge }
HorizontalReturnInPlace ==
    /\ pc = "orphans"
    /\ direction = "LR"
    /\ LET st == placeOrphans([pos |-> positions, order |-> posOrder,
                               hp |-> handlePositions], 1)
           outNodes == horizontalNewNodes(st.pos, st.hp)
           outEdges == horizontalNewEdges(rootId, st.pos, outNodes)
       IN /\ positions' = st.pos
          /\ posOrder' = st.order
          /\ handlePositions' = st.hp
          /\ newNodes' = outNodes
          /\ newEdges' = outEdges
          /\ nodes' = [id \in NodeIds |->
                          [nodes[id] EXCEPT !.x = outNodes[id].x, !.y = outNodes[id].y]]
          /\ edges' = [k \in 1..Len(edges) |->
                          [edges[k] EXCEPT !.sourceHandle = outEdges[k].sourceHandle,
                                           !.targetHandle = outEdges[k].targetHandle]]
    /\ pc' = "returned"
    /\ UNCHANGED <<direction, children, parent, rootId, visited, iteration, hasOverlap,
                   warned>>
    /\ UNCHANGED findVars
    /\ UNCHANGED pageVars
    /\ UNCHANGED callVars

\* "Handle orphaned nodes", newNodes and newEdges
HorizontalReturn ==
    /\ pc = "orphans"
    /\ direction = "LR"
    /\ LET st == placeOrphans([pos |-> positions, order |-> posOrder,
                               hp |-> handlePositions], 1)
           outNodes == horizontalNewNodes(st.pos, st.hp)
       IN /\ positions' = st.pos
          /\ posOrder' = st.order
          /\ handlePositions' = st.hp
          /\ newNodes' = outNodes
          /\ newEdges' = horizontalNewEdges(rootId, st.pos, outNodes)
    /\ pc' = "returned"
    /\ UNCHANGED <<direction, nodes, edges, children, parent, rootId, visited,
                   iteration, hasOverlap, warned>>
    /\ UNCHANGED findVars
    /\ UNCHANGED pageVars
    /\ UNCHANGED callVars

\* radialLayout up to the parent/child pass: every tree of roots in turn, with the
\* handles as the rounding lets them fall; positionChildren never returns for a root
\* from which a cycle can be reached; the same operands round the same way in every call
RadialPlace ==
    /\ pc = "built"
    /\ direction = "radial"
    /\ LET roots == findRootNodes(nodes, edges)
       IN IF \E k \in 1..Len(roots) : RecursesForever(roots[k])
          THEN /\ pc' = "thrown"
               /\ UNCHANGED <<positions, posOrder, handlePositions, visited, firstOutcome>>
          ELSE LET st == layoutTrees([pos |-> positions, order |-> <<>>,
                                      visited |-> noneVisited,
                                      atan2 |-> [id \in NodeIds |->
                                                   [dy |-> 0, dx |-> 0, known |-> FALSE]]],
                                     roots, 1)
               IN /\ positions' = st.pos
                  /\ posOrder' = st.order
                  /\ handlePositions' \in radialHandles(st, Len(nodes))
                  /\ (firstOutcome.known /\ firstOutcome.operands = st) =>
                         handlePositions' = firstOutcome.value
                  /\ firstOutcome' = IF firstOutcome.known THEN firstOutcome
                                     ELSE [known |-> TRUE, operands |-> st,
                                           value |-> handlePositions']
                  /\ visited' = st.visited
                  /\ pc' = "nudge"
    /\ UNCHANGED <<direction, nodes, edges, children, parent, rootId, iteration,
                   hasOverlap, warned, newNodes, newEdges>>
    /\ UNCHANGED findVars
    /\ UNCHANGED pageVars
    /\ UNCHANGED <<callNo, firstResult>>

\* edges.forEach of the parent/child pass of radialLayout
RadialNudge ==
    /\ pc = "nudge"
    /\ direction = "radial"
    /\ positions' = radialNudgeEdges(positions, posOrder, 1)
    /\ pc' = "orphans"
    /\ UNCHANGED <<direction, nodes, edges, children, parent, rootId, posOrder,
                   handlePositions, visited, iteration, hasOverlap, warned, newNodes,
                   newEdges>>
    /\ UNCHANGED findVars
    /\ UNCHANGED pageVars
    /\ UNCHANGED callVars

\* the unvisited nodes and nodes.map; the edges are returned as they came
RadialReturn ==
    /\ pc = "orphans"
    /\ direction = "radial"
    /\ LET st == radialOrphans([pos |-> positions, order |-> posOrder,
                                hp |-> handlePositions, visited |-> visited], 1,
                               Px(1200) * Len(findRootNodes(nodes, edges)))
       IN /\ positions' = st.pos
          /\ posOrder' = st.order
          /\ handlePositions' = st.hp
          /\ newNodes' = radialNewNodes(st.pos, st.hp)
    /\ newEdges' = edges
    /\ pc' = "returned"
    /\ UNCHANGED <<direction, nodes, edges, children, parent, rootId, visited, iteration,
                   hasOverlap, warned>>
    /\ UNCHANGED findVars
    /\ UNCHANGED pageVars
    /\ UNCHANGED callVars

\* what dagre.layout and the distribution over the levels are given: setNode with the
\* measured size of every node, setEdge with the two ends of every edge, and data.level
dagreGraph ==
    <<[id \in NodeIds |-> measuredSize(id)],
      [k \in 1..Len(edges) |-> <<edges[k].source, edges[k].target>>],
      [id \in NodeIds |-> levelOf(id)]>>

\* dagre.layout and "Evenly distribute nodes within each level": of the dagre result
\* only the order by x inside each level is read, and dagre may give any order, the
\* same one whenever it is given the same graph
VerticalPlace ==
    /\ pc = "built"
    /\ direction = "TB"
    /\ \E sorted \in Permutations(NodeIds) :
          /\ positions' = [id \in NodeIds |-> redistributed(sorted, id)]
          /\ (firstOutcome.known /\ firstOutcome.operands = dagreGraph) =>
                 positions' = firstOutcome.value
          /\ firstOutcome' = IF firstOutcome.known THEN firstOutcome
                             ELSE [known |-> TRUE, operands |-> dagreGraph,
                                   value |-> positions']
    /\ posOrder' = [id \in NodeIds |-> id]
    /\ pc' = "placed"
    /\ UNCHANGED <<direction, nodes, edges, children, parent, rootId, handlePositions,
                   visited, iteration, hasOverlap, warned, newNodes, newEdges>>
    /\ UNCHANGED findVars
    /\ UNCHANGED pageVars
    /\ UNCHANGED <<callNo, firstResult>>

\* newNodes and newEdges of the rank layout
VerticalReturn ==
    /\ pc = "placed"
    /\ direction = "TB"
    /\ LET outNodes == verticalNewNodes(positions, rootId, topSideNodes(rootId))
       IN /\ newNodes' = outNodes
          /\ newEdges' = verticalNewEdges(rootId, outNodes)
          /\ handlePositions' = [id \in NodeIds |->
                                    [target |-> outNodes[id].targetPosition,
                                     source |-> outNodes[id].sourcePosition]]
    /\ pc' = "returned"
    /\ UNCHANGED <<direction, nodes, edges, children, parent, rootId, positions, posOrder,
                   visited, iteration, hasOverlap, warned>>
    /\ UNCHANGED findVars
    /\ UNCHANGED pageVars
    /\ UNCHANGED callVars

Next ==
    \/ ReturnEmpty
    \/ Prepare
    \/ HorizontalPlace
    \/ ResolveStep
    \/ ResolveEnd
    \/ HorizontalNudge
    \/ HorizontalReturn
    \/ RadialPlace
    \/ RadialNudge
    \/ RadialReturn
    \/ VerticalPlace
    \/ VerticalReturn

Spec == Init /\ [][Next]_vars

---------------------------------------------------------------------------
(* findNonOverlappingPosition of MindMapPage.tsx, lengths in whole CSS pixels *)

MaxExisting == 2

\* const padding = 20
findPadding == 20
defaultWidth == 200
defaultHeight == 100

\* minDistance = Infinity
Infinity == 0 - 1

\* existingNode.measured?.width ?? existingNode.data?.width ?? nodeWidth, the last one
\* being the width argument of the call
existingSize(e, a) ==
    [width |-> Coalesce(e.mw, Coalesce(e.dw, a.nodeWidth)),
     height |-> Coalesce(e.mh, Coalesce(e.dh, a.nodeHeight))]

\* !(testRight + padding < existingLeft || testLeft - padding > existingRight || ...)
overlapsExisting(testX, testY, e, a) ==
    ~ (\/ testX + a.nodeWidth + findPadding < e.x
       \/ testX - findPadding > e.x + existingSize(e, a).width
       \/ testY + a.nodeHeight + findPadding < e.y
       \/ testY - findPadding > e.y + existingSize(e, a).height)

\* hasOverlap after the loop over existingNodes
hasOverlapAt(testX, testY, a) ==
    \E k \in 1..Len(a.existingNodes) : overlapsExisting(testX, testY, a.existingNodes[k], a)

RECURSIVE SqrtBetween(_, _, _)
SqrtBetween(n, lo, hi) ==
    IF lo >= hi THEN lo
    ELSE LET mid == (lo + hi + 1) \div 2
         IN IF mid * mid <= n THEN SqrtBetween(n, mid, hi) ELSE SqrtBetween(n, lo, mid - 1)

\* Math.sqrt rounded down
Sqrt(n) == SqrtBetween(n, 0, 46340)

\* the distance of the two centres in tenths of a pixel, rounded down
centreDistance(testX, testY, e, a) ==
    LET dx == (2 * testX + a.nodeWidth) - (2 * e.x + existingSize(e, a).width)
        dy == (2 * testY + a.nodeHeight) - (2 * e.y + existingSize(e, a).height)
    IN Sqrt(25 * (dx * dx + dy * dy))

\* totalDistance of a candidate that overlaps no node
totalDistance(testX, testY, a) ==
    SumSeq([k \in 1..Len(a.existingNodes) |->
               centreDistance(testX, testY, a.existingNodes[k], a)],
           Len(a.existingNodes))

\* for (yOffset = -200; yOffset <= 200; yOffset += 50), the i-th of 9 values
yOffset(i) == 50 * i - 250

\* for (xAdjust = 0; xAdjust < 500; xAdjust += 50), the i-th of 10 values, signed by
\* the direction
xAdjust(i, a) == IF a.direction = "right" THEN 50 * (i - 1) ELSE 0 - 50 * (i - 1)

freeOffsets(a) == {i \in 1..9 : ~ hasOverlapAt(a.initialX, a.initialY + yOffset(i), a)}

\* The candidates the first loop can end with: a free one whose totalDistance is below
\* that of every earlier and not above that of every later free one.  Each distance
\* is known up to its rounding, so with n existing nodes two totals closer than n
\* tenths can compare either way
bestOffsets(a) ==
    LET n == Len(a.existingNodes)
        total(i) == totalDistance(a.initialX, a.initialY + yOffset(i), a)
    IN {i \in freeOffsets(a) :
           \A j \in freeOffsets(a) \ {i} :
               IF n = 0 THEN (IF j < i THEN total(i) < total(j) ELSE total(i) <= total(j))
               ELSE total(i) < total(j) + n}

freeAdjusts(a, y) == {i \in 1..10 : ~ hasOverlapAt(a.initialX + xAdjust(i, a), y, a)}

\* the second loop left out: a faulty variant of adjustedX, against which C13 is tested
unadjustedX(a, y) == a.initialX

\* bestX after the second loop: the first free xAdjust, else unchanged
adjustedX(a, y) ==
    IF freeAdjusts(a, y) = {} THEN a.initialX
    ELSE a.initialX
         + xAdjust(CHOOSE i \in freeAdjusts(a, y) : \A j \in freeAdjusts(a, y) : i <= j, a)

\* the nodes of the canvas around the desired point (0, 0): sizes absent, measured,
\* or stored on data
ExistingNode(x, y, size) ==
    [x |-> x, y |-> y, mw |-> size[1], mh |-> size[2], dw |-> size[3], dh |-> size[4]]

ExistingSizes == {<<0, 0, 0, 0>>, <<900, 500, 0, 0>>, <<0, 0, 300, 200>>}

ExistingNodes ==
    {ExistingNode(x, y, size) :
        x \in {0 - 300, 0, 300}, y \in {0 - 120, 0, 120}, size \in ExistingSizes}

RECURSIVE SeqsUpTo(_, _)
SeqsUpTo(S, n) ==
    IF n = 0 THEN {<<>>}
    ELSE SeqsUpTo(S, n - 1) \cup {Append(q, e) : q \in SeqsUpTo(S, n - 1), e \in S}

FindCases ==
    {[initialX |-> 0, initialY |-> 0, nodeWidth |-> defaultWidth,
      nodeHeight |-> defaultHeight, existingNodes |-> q, direction |-> d] :
        q \in SeqsUpTo(ExistingNodes, MaxExisting), d \in {"left", "right"}}

\* the call: bestX = initialX, bestY = initialY, minDistance = Infinity
FindInit ==
    /\ findArgs \in FindCases
    /\ findPc = "called"
    /\ bestX = findArgs.initialX
    /\ bestY = findArgs.initialY
    /\ minDistance = Infinity
    /\ direction = "none"
    /\ nodes = <<>>
    /\ edges = <<>>
    /\ pc = "idle"
    /\ children = <<>>
    /\ parent = <<>>
    /\ rootId = 0
    /\ positions = <<>>
    /\ posOrder = <<>>
    /\ handlePositions = <<>>
    /\ visited = {}
    /\ iteration = 0
    /\ hasOverlap = FALSE
    /\ warned = FALSE
    /\ newNodes = <<>>
    /\ newEdges = <<>>
    /\ callNo = 1
    /\ firstResult = noResult
    /\ firstOutcome = noOutcome
    /\ levelArgs = <<>>
    /\ levelQueue = <<>>
    /\ nodeLevels = <<>>
    /\ levelVisited = {}
    /\ levelPc = "idle"
    /\ mapNodes = <<>>
    /\ mapEdges = <<>>
    /\ editingNodeId = 0
    /\ lastOp = noOp

\* "Try different Y positions to find the best one"
VerticalScan ==
    /\ findPc = "called"
    /\ IF freeOffsets(findArgs) = {}
       THEN UNCHANGED <<bestX, bestY, minDistance>>
       ELSE \E i \in bestOffsets(findArgs) :
               /\ bestX' = findArgs.initialX
               /\ bestY' = findArgs.initialY + yOffset(i)
               /\ minDistance' = totalDistance(findArgs.initialX,
                                               findArgs.initialY + yOffset(i), findArgs)
    /\ findPc' = "scanned"
    /\ UNCHANGED <<findArgs, layoutVars, callVars, pageVars>>

\* if (minDistance === Infinity): "try adjusting X position"
HorizontalScan ==
    /\ findPc = "scanned"
    /\ minDistance = Infinity
    /\ bestX' = adjustedX(findArgs, bestY)
    /\ findPc' = "adjusted"
    /\ UNCHANGED <<findArgs, bestY, minDistance, layoutVars, callVars, pageVars>>

\* return { x: bestX, y: bestY }
FindReturn ==
    /\ \/ findPc = "adjusted"
       \/ findPc = "scanned" /\ minDistance # Infinity
    /\ findPc' = "returned"
    /\ UNCHANGED <<findArgs, bestX, bestY, minDistance, layoutVars, callVars, pageVars>>

FindNext ==
    \/ VerticalScan
    \/ HorizontalScan
    \/ FindReturn

FindSpec == FindInit /\ [][FindNext]_vars

---------------------------------------------------------------------------
(* getLayoutedElements called a second time with the arguments of the first call *)

\* the arguments of the repeated calls: the smaller graphs and fans
RepeatCases ==
    UNION ({ForestCases(n) : n \in 0..MaxCyclic}
           \cup {GraphCases(n) : n \in 1..MaxCyclic}
           \cup {SizedCases(n) : n \in 1..(MaxCyclic - 1)}
           \cup {HintCases(n) : n \in 2..MaxCyclic}
           \cup {{c \in FanCases(k) : Len(c.nodes) <= MaxCyclic + 1} : k \in 1..MaxCyclic})

RepeatInit ==
    /\ \E c \in RepeatCases :
          /\ direction = c.direction
          /\ nodes = c.nodes
          /\ edges = c.edges
    /\ pc = "start"
    /\ children = <<>>
    /\ parent = <<>>
    /\ rootId = 0
    /\ positions = <<>>
    /\ posOrder = <<>>
    /\ handlePositions = <<>>
    /\ visited = {}
    /\ iteration = 0
    /\ hasOverlap = FALSE
    /\ warned = FALSE
    /\ newNodes = <<>>
    /\ newEdges = <<>>
    /\ findPc = "idle"
    /\ findArgs = <<>>
    /\ bestX = 0
    /\ bestY = 0
    /\ minDistance = 0
    /\ callNo = 1
    /\ firstResult = noResult
    /\ firstOutcome = noOutcome
    /\ levelArgs = <<>>
    /\ levelQueue = <<>>
    /\ nodeLevels = <<>>
    /\ levelVisited = {}
    /\ levelPc = "idle"
    /\ mapNodes = <<>>
    /\ mapEdges = <<>>
    /\ editingNodeId = 0
    /\ lastOp = noOp

\* the caller keeps what the first call returned, or that it threw, and calls again with
\* the same nodes, edges and direction; whatever the first call left behind is still there
CallAgain ==
    /\ callNo = 1
    /\ pc \in {"returned", "thrown"}
    /\ firstResult' = [pc |-> pc, nodes |-> newNodes, edges |-> newEdges]
    /\ callNo' = 2
    /\ pc' = "start"
    /\ UNCHANGED <<direction, nodes, edges, children, parent, rootId, positions, posOrder,
                   handlePositions, visited, iteration, hasOverlap, warned, newNodes,
                   newEdges, firstOutcome>>
    /\ UNCHANGED findVars
    /\ UNCHANGED pageVars

RepeatNext ==
    \/ ReturnEmpty
    \/ Prepare
    \/ HorizontalPlace
    \/ ResolveStep
    \/ ResolveEnd
    \/ HorizontalNudge
    \/ HorizontalReturn
    \/ RadialPlace
    \/ RadialNudge
    \/ RadialReturn
    \/ VerticalPlace
    \/ VerticalReturn
    \/ CallAgain

RepeatSpec == RepeatInit /\ [][RepeatNext]_vars

\* onLayout after onLayout: setNodes and setEdges have stored what the first call
\* returned, and getNodes() and getEdges() hand it to the second call; measured size,
\* data and direction are the ones of the first call
Reapply ==
    /\ callNo = 1
    /\ pc = "returned"
    /\ firstResult' = [pc |-> pc, nodes |-> newNodes, edges |-> newEdges]
    /\ nodes' = [id \in NodeIds |->
                    [nodes[id] EXCEPT !.x = newNodes[id].x, !.y = newNodes[id].y, !.scale = 1]]
    /\ edges' = newEdges
    /\ callNo' = 2
    /\ pc' = "start"
    /\ UNCHANGED <<direction, children, parent, rootId, positions, posOrder,
                   handlePositions, visited, iteration, hasOverlap, warned, newNodes,
                   newEdges, firstOutcome>>
    /\ UNCHANGED findVars
    /\ UNCHANGED pageVars

ReapplyNext ==
    \/ ReturnEmpty
    \/ Prepare
    \/ HorizontalPlace
    \/ ResolveStep
    \/ ResolveEnd
    \/ HorizontalNudge
    \/ HorizontalReturn
    \/ RadialPlace
    \/ RadialNudge
    \/ RadialReturn
    \/ VerticalPlace
    \/ VerticalReturn
    \/ Reapply

ReapplySpec == RepeatInit /\ [][ReapplyNext]_vars

---------------------------------------------------------------------------
(* calculateNodeLevels of MindMapPage.tsx *)

\* levels.has(id) is false
noLevel == 0 - 1

\* the place of the item a pop() would take, the last of the queue
popIndex(q) == Len(q)

\* the place of the item queue.shift() takes
shiftIndex(q) == 1

withoutItem(q, i) == [k \in 1..(Len(q) - 1) |-> IF k < i THEN q[k] ELSE q[k + 1]]

\* children.forEach: the children not yet visited, one level further
RECURSIVE pushChildren(_, _, _, _)
pushChildren(kids, seen, level, k) ==
    IF k > Len(kids) THEN <<>>
    ELSE IF kids[k] \in seen THEN pushChildren(kids, seen, level, k + 1)
         ELSE <<[id |-> kids[k], level |-> level + 1]>>
              \o pushChildren(kids, seen, level, k + 1)

\* the arguments: the graphs of the layout model, with their cycles and second parents
LevelCases ==
    {[n |-> Len(c.nodes), edges |-> c.edges] :
        c \in UNION ({ForestCases(n) : n \in 0..MaxNodes}
                     \cup {GraphCases(n) : n \in 1..MaxCyclic})}

\* the call up to the loop: the queue holds the nodes without an incoming edge
LevelInit ==
    /\ levelArgs \in LevelCases
    /\ levelQueue = LET roots == FilterRoots(levelArgs.n, targetIds(levelArgs.edges), 1)
                    IN [k \in 1..Len(roots) |-> [id |-> roots[k], level |-> 0]]
    /\ nodeLevels = [id \in 1..levelArgs.n |-> noLevel]
    /\ levelVisited = {}
    /\ levelPc = "bfs"
    /\ direction = "none"
    /\ nodes = <<>>
    /\ edges = <<>>
    /\ pc = "idle"
    /\ children = <<>>
    /\ parent = <<>>
    /\ rootId = 0
    /\ positions = <<>>
    /\ posOrder = <<>>
    /\ handlePositions = <<>>
    /\ visited = {}
    /\ iteration = 0
    /\ hasOverlap = FALSE
    /\ warned = FALSE
    /\ newNodes = <<>>
    /\ newEdges = <<>>
    /\ findPc = "idle"
    /\ findArgs = <<>>
    /\ bestX = 0
    /\ bestY = 0
    /\ minDistance = 0
    /\ callNo = 1
    /\ firstResult = noResult
    /\ firstOutcome = noOutcome
    /\ mapNodes = <<>>
    /\ mapEdges = <<>>
    /\ editingNodeId = 0
    /\ lastOp = noOp

\* one turn of while (queue.length > 0)
LevelStep ==
    /\ levelPc = "bfs"
    /\ Len(levelQueue) > 0
    /\ LET i == shiftIndex(levelQueue)
           item == levelQueue[i]
           rest == withoutItem(levelQueue, i)
       IN IF item.id \in levelVisited
          THEN /\ levelQueue' = rest
               /\ UNCHANGED <<nodeLevels, levelVisited>>
          ELSE /\ levelVisited' = levelVisited \cup {item.id}
               /\ nodeLevels' = [nodeLevels EXCEPT ![item.id] = item.level]
               /\ levelQueue' = rest \o pushChildren(ChildrenOf(levelArgs.edges, item.id, 1),
                                                     levelVisited \cup {item.id},
                                                     item.level, 1)
    /\ UNCHANGED <<levelArgs, levelPc>>
    /\ UNCHANGED <<layoutVars, findVars, callVars, editVars>>

\* "Set level 0 for any unvisited nodes" and return levels
LevelFill ==
    /\ levelPc = "bfs"
    /\ Len(levelQueue) = 0
    /\ nodeLevels' = [id \in 1..levelArgs.n |->
                         IF nodeLevels[id] = noLevel THEN 0 ELSE nodeLevels[id]]
    /\ levelPc' = "returned"
    /\ UNCHANGED <<levelArgs, levelQueue, levelVisited>>
    /\ UNCHANGED <<layoutVars, findVars, callVars, editVars>>

LevelNext ==
    \/ LevelStep
    \/ LevelFill

\* the loop is run to its end: nothing else runs inside the call
LevelSpec == LevelInit /\ [][LevelNext]_vars /\ WF_vars(LevelNext)

---------------------------------------------------------------------------
(* addChildNode and addSiblingNode of MindMapPage.tsx, lengths in whole CSS pixels *)

\* how many nodes are added to the initial map
MaxEdits == 2

\* initialNodes: the node '1' at (0, 0), level 0, selected; its size is not measured
initialNodes ==
    <<[x |-> 0, y |-> 0, mw |-> 0, mh |-> 0, dw |-> 0, dh |-> 0, level |-> 0,
       selected |-> TRUE]>>

initialEdges == <<>>

\* what findNonOverlappingPosition can return for the arguments a
foundPositions(a) ==
    IF freeOffsets(a) # {}
    THEN {[x |-> a.initialX, y |-> a.initialY + yOffset(i)] : i \in bestOffsets(a)}
    ELSE {[x |-> adjustedX(a, a.initialY), y |-> a.initialY]}

\* getNodes().filter(n => n.selected)
selectedNodes == {k \in 1..Len(mapNodes) : mapNodes[k].selected}

\* selectedNodes[0]
firstSelected == CHOOSE k \in selectedNodes : \A j \in selectedNodes : k <= j

\* getEdges().find(e => e.target === selected.id), 0 when there is none
parentEdgeOf(id) ==
    IF \E k \in 1..Len(mapEdges) : mapEdges[k].target = id
    THEN CHOOSE k \in 1..Len(mapEdges) :
            /\ mapEdges[k].target = id
            /\ \A j \in 1..(k - 1) : mapEdges[j].target # id
    ELSE 0

\* the new edge drawn from the selected node itself
sourceOfSelected(parentEdge, selected) == selected

\* source: parentEdge.source
siblingSource(parentEdge, selected) == mapEdges[parentEdge].source

\* setNodes((nds) => [...nds.map(n => ({ ...n, selected: false })), newNode])
withNewNode(at, level) ==
    [k \in 1..(Len(mapNodes) + 1) |->
        IF k <= Len(mapNodes) THEN [mapNodes[k] EXCEPT !.selected = FALSE]
        ELSE [x |-> at.x, y |-> at.y, mw |-> 0, mh |-> 0, dw |-> 0, dh |-> 0,
              level |-> level, selected |-> TRUE]]

EditInit ==
    /\ mapNodes = initialNodes
    /\ mapEdges = initialEdges
    /\ editingNodeId = 0
    /\ lastOp = noOp
    /\ levelArgs = <<>>
    /\ levelQueue = <<>>
    /\ nodeLevels = <<>>
    /\ levelVisited = {}
    /\ levelPc = "idle"
    /\ direction = "none"
    /\ nodes = <<>>
    /\ edges = <<>>
    /\ pc = "idle"
    /\ children = <<>>
    /\ parent = <<>>
    /\ rootId = 0
    /\ positions = <<>>
    /\ posOrder = <<>>
    /\ handlePositions = <<>>
    /\ visited = {}
    /\ iteration = 0
    /\ hasOverlap = FALSE
    /\ warned = FALSE
    /\ newNodes = <<>>
    /\ newEdges = <<>>
    /\ findPc = "idle"
    /\ findArgs = <<>>
    /\ bestX = 0
    /\ bestY = 0
    /\ minDistance = 0
    /\ callNo = 1
    /\ firstResult = noResult
    /\ firstOutcome = noOutcome

\* addChildNode(direction); while a node is edited or none is selected it returns early
AddChild ==
    /\ editingNodeId = 0
    /\ selectedNodes # {}
    /\ Len(mapNodes) < 1 + MaxEdits
    /\ \E side \in {"left", "right"} :
          LET parentNode == firstSelected
              xOffset == IF side = "right" THEN 350 ELSE 0 - 350
              a == [initialX |-> mapNodes[parentNode].x + xOffset,
                    initialY |-> mapNodes[parentNode].y,
                    nodeWidth |-> defaultWidth, nodeHeight |-> defaultHeight,
                    existingNodes |-> mapNodes, direction |-> side]
          IN /\ \E at \in foundPositions(a) :
                   mapNodes' = withNewNode(at, mapNodes[parentNode].level + 1)
             /\ mapEdges' = Append(mapEdges,
                                   [source |-> parentNode, target |-> Len(mapNodes) + 1,
                                    sourceHandle |-> side,
                                    targetHandle |-> IF side = "right" THEN "left"
                                                     ELSE "right"])
             /\ lastOp' = [op |-> "child", selected |-> parentNode]
    /\ UNCHANGED editingNodeId
    /\ UNCHANGED <<layoutVars, findVars, callVars, levelVars>>

\* addSiblingNode, with the same early returns
AddSibling ==
    /\ editingNodeId = 0
    /\ selectedNodes # {}
    /\ Len(mapNodes) < 1 + MaxEdits
    /\ LET selected == firstSelected
           a == [initialX |-> mapNodes[selected].x,
                 initialY |-> mapNodes[selected].y + 120,
                 nodeWidth |-> defaultWidth, nodeHeight |-> defaultHeight,
                 existingNodes |-> mapNodes, direction |-> "right"]
           parentEdge == parentEdgeOf(selected)
       IN /\ \E at \in foundPositions(a) :
                mapNodes' = withNewNode(at, mapNodes[selected].level)
          /\ mapEdges' = IF parentEdge # 0
                         THEN Append(mapEdges,
                                     [source |-> siblingSource(parentEdge, selected),
                                      target |-> Len(mapNodes) + 1,
                                      sourceHandle |-> "none", targetHandle |-> "none"])
                         ELSE mapEdges
          /\ lastOp' = [op |-> "sibling", selected |-> selected]
    /\ UNCHANGED editingNodeId
    /\ UNCHANGED <<layoutVars, findVars, callVars, levelVars>>

\* onNodesChange with selection changes: the user's clicks leave any set of nodes selected
SelectNodes ==
    /\ \E S \in SUBSET (1..Len(mapNodes)) :
          mapNodes' = [k \in 1..Len(mapNodes) |-> [mapNodes[k] EXCEPT !.selected = (k \in S)]]
    /\ UNCHANGED <<mapEdges, editingNodeId, lastOp>>
    /\ UNCHANGED <<layoutVars, findVars, callVars, levelVars>>

\* onEditStart: setEditingNodeId(id)
EditStart ==
    /\ \E id \in 1..Len(mapNodes) : editingNodeId' = id
    /\ UNCHANGED <<mapNodes, mapEdges, lastOp>>
    /\ UNCHANGED <<layoutVars, findVars, callVars, levelVars>>

\* onEditEnd: setEditingNodeId(null)
EditEnd ==
    /\ editingNodeId # 0
    /\ editingNodeId' = 0
    /\ UNCHANGED <<mapNodes, mapEdges, lastOp>>
    /\ UNCHANGED <<layoutVars, findVars, callVars, levelVars>>

EditNext ==
    \/ AddChild
    \/ AddSibling
    \/ SelectNodes
    \/ EditStart
    \/ EditEnd

EditSpec == EditInit /\ [][EditNext]_vars

---------------------------------------------------------------------------
(* Properties of the result *)

Returned == pc = "returned"

\* two boxes of the result closer than padding; a box has x, y, width and height
Intersect(a, b, padding) ==
    nodesOverlap(newNodes[a], newNodes[a], newNodes[b], newNodes[b], padding)

Siblings(a, b) ==
    a # b /\ \E p \in NodeIds : Has(children[p], a) /\ Has(children[p], b)

DefaultSized == \A id \in NodeIds : nodes[id].mw = 0 /\ nodes[id].mh = 0

InDegree(id) == Cardinality({k \in 1..Len(edges) : edges[k].target = id})

IsForest ==
    /\ \A id \in NodeIds : InDegree(id) <= 1
    /\ \A id \in NodeIds : id \notin Descendants(id)

IsTree == IsForest /\ Cardinality({id \in NodeIds : InDegree(id) = 0}) = 1

\* the nodes the walk from the root, or from the roots, has placed
Placed ==
    IF Len(nodes) = 0 THEN {}
    ELSE IF direction = "LR" THEN {rootId} \cup Descendants(rootId)
    ELSE visited

\* C1: in the directions 'LR' and 'radial' the call returns for every graph, cyclic
\* ones included: no recursive walk overflows the stack
C1_NoThrow == direction \in {"LR", "radial"} => pc # "thrown"

\* C2: in every direction the call ends by returning one node for each input node,
\* in input order
C2_OneNodeEach ==
    pc \in {"returned", "thrown"} =>
        /\ Returned
        /\ Len(newNodes) = Len(nodes)
        /\ \A i \in NodeIds : newNodes[i].id = i

\* C3: after 'LR' any two children of one parent keep the gap of minPadding, unless
\* the overlap resolution ended at its cap with the warning
C3_SiblingsApartLR ==
    (Returned /\ direction = "LR" /\ ~ warned) =>
        \A a \in NodeIds : \A b \in NodeIds :
            Siblings(a, b) => ~ Intersect(a, b, Px(minPadding))

\* C4: after 'radial' any two children of one parent, all boxes of the default size,
\* do not overlap (stated here without any padding), unless a warning was given
C4_SiblingsApartRadial ==
    (Returned /\ direction = "radial" /\ DefaultSized /\ ~ warned) =>
        \A a \in NodeIds : \A b \in NodeIds : Siblings(a, b) => ~ Intersect(a, b, 0)

\* C5: after 'LR' or 'TB' the sourceHandle of every edge is the sourcePosition of its
\* source node, the root included
C5_SourceSide ==
    (Returned /\ direction \in {"LR", "TB"}) =>
        \A k \in 1..Len(newEdges) :
            newEdges[k].sourceHandle = newNodes[newEdges[k].source].sourcePosition

\* C6: after 'LR' or 'TB' the targetHandle of every edge is the targetPosition of its
\* target node
C6_TargetSide ==
    (Returned /\ direction \in {"LR", "TB"}) =>
        \A k \in 1..Len(newEdges) :
            newEdges[k].targetHandle = newNodes[newEdges[k].target].targetPosition

\* an 'LR' result in which one edge enters its target on the right and another one
\* on the left, each as the targetPosition of its target says
C6_Witness ==
    /\ Returned
    /\ direction = "LR"
    /\ \E k \in 1..Len(newEdges) : \E j \in 1..Len(newEdges) :
          /\ newEdges[k].targetHandle = "right"
          /\ newNodes[newEdges[k].target].targetPosition = "right"
          /\ newEdges[j].targetHandle = "left"
          /\ newNodes[newEdges[j].target].targetPosition = "left"

CentreX(id) == newNodes[id].x + Half(newNodes[id].width)
CentreY(id) == newNodes[id].y + Half(newNodes[id].height)

\* the square of the distance of two centres in whole pixels, each leg taken two
\* pixels longer than it is to cover the rounding of the positions
DistanceSq(a, b) ==
    LET dx == Abs(CentreX(a) - CentreX(b)) \div 100 + 2
        dy == Abs(CentreY(a) - CentreY(b)) \div 100 + 2
    IN dx * dx + dy * dy

RequiredDistance(p, c) == (halfDiagonal(p) + halfDiagonal(c) + Px(80)) \div 100

\* C7: after 'radial' on a tree the centres of a parent and its child are at least
\* the two half-diagonals and the padding of 80 apart, for all box sizes
C7_ParentChildDistance ==
    (Returned /\ direction = "radial" /\ IsTree) =>
        \A k \in 1..Len(edges) :
            DistanceSq(edges[k].source, edges[k].target)
                >= RequiredDistance(edges[k].source, edges[k].target)
                     * RequiredDistance(edges[k].source, edges[k].target)

SetMin(S) == CHOOSE v \in S : \A w \in S : v <= w
SetMax(S) == CHOOSE v \in S : \A w \in S : v >= w

\* the bounding box of the boxes of the placed nodes
PlacedBounds ==
    LET left == SetMin({newNodes[id].x : id \in Placed})
        top == SetMin({newNodes[id].y : id \in Placed})
        right == SetMax({newNodes[id].x + newNodes[id].width : id \in Placed})
        bottom == SetMax({newNodes[id].y + newNodes[id].height : id \in Placed})
    IN [x |-> left, y |-> top, width |-> right - left, height |-> bottom - top]

\* C8: after 'LR' and 'radial' the box of every node the walk did not reach lies
\* outside the bounding box of the nodes it placed
C8_OrphansOutside ==
    (Returned /\ direction \in {"LR", "radial"}) =>
        \A o \in NodeIds \ Placed :
            ~ nodesOverlap(newNodes[o], newNodes[o], PlacedBounds, PlacedBounds, 0)

\* C9: after 'LR' on a forest, whatever the sizes, no two boxes intersect
C9_ForestBoxesApart ==
    (Returned /\ direction = "LR" /\ IsForest) =>
        \A a \in NodeIds : \A b \in NodeIds : a # b => ~ Intersect(a, b, 0)

SameRank(a, b) == levelOf(a) = levelOf(b)

\* b is the node of the rank of a that follows a from left to right
NextInRank(a, b) ==
    /\ SameRank(a, b)
    /\ CentreX(a) < CentreX(b)
    /\ \A c \in NodeIds : SameRank(a, c) => ~ (CentreX(a) < CentreX(c) /\ CentreX(c) < CentreX(b))

\* C10: after 'TB' with boxes of the default size the nodes of every rank stand at
\* equal steps inside the span of verticalRange from 200 on, and no two of them
\* intersect
C10_RankSpread ==
    (Returned /\ direction = "TB" /\ DefaultSized) =>
        /\ \A a \in NodeIds :
              CentreX(a) >= Px(200) /\ CentreX(a) <= Px(200) + Px(verticalRange)
        /\ \A a \in NodeIds : \A b \in NodeIds : \A c \in NodeIds :
              (NextInRank(a, b) /\ NextInRank(b, c)) =>
                  Abs((CentreX(b) - CentreX(a)) - (CentreX(c) - CentreX(b))) <= 1
        /\ \A a \in NodeIds : \A b \in NodeIds :
              (a # b /\ SameRank(a, b)) => ~ Intersect(a, b, 0)

\* the root edge of the child t, the one edges.find gives, carries the hint side
RootEdgeHint(t, side) ==
    /\ findEdge(rootId, t, 1) # 0
    /\ edges[findEdge(rootId, t, 1)].sourceHandle = side

OppositeSide(side) ==
    IF side = "left" THEN "right"
    ELSE IF side = "right" THEN "left"
    ELSE IF side = "top" THEN "bottom"
    ELSE "top"

\* the centre of b lies on the given side of the centre of a
LiesOn(a, b, side) ==
    IF side = "left" THEN CentreX(b) < CentreX(a)
    ELSE IF side = "right" THEN CentreX(b) > CentreX(a)
    ELSE IF side = "top" THEN CentreY(b) < CentreY(a)
    ELSE CentreY(b) > CentreY(a)

\* C12: after 'radial' on a single root with a single child the root's sourcePosition
\* is the side on which the child lies and the child's targetPosition is the
\* opposite side
C12_OpposingHandles ==
    (Returned /\ direction = "radial" /\ Len(nodes) = 2 /\ Len(edges) = 1 /\ IsTree) =>
        LET root == edges[1].source
            child == edges[1].target
        IN /\ LiesOn(root, child, newNodes[root].sourcePosition)
           /\ newNodes[child].targetPosition = OppositeSide(newNodes[root].sourcePosition)

\* the candidates a call examines: the 9 vertical offsets at the desired x and the
\* 10 horizontal offsets at the desired y
Examined ==
    {<<findArgs.initialX, findArgs.initialY + yOffset(i)>> : i \in 1..9}
    \cup {<<findArgs.initialX + xAdjust(i, findArgs), findArgs.initialY>> : i \in 1..10}

OverlapCount(c) ==
    Cardinality({k \in 1..Len(findArgs.existingNodes) :
                    overlapsExisting(c[1], c[2], findArgs.existingNodes[k], findArgs)})

\* C13: if the padded box of some examined candidate overlaps no existing node, the
\* padded box of the returned position overlaps none
C13_FreeIfPossible ==
    (findPc = "returned" /\ \E c \in Examined : OverlapCount(c) = 0) =>
        OverlapCount(<<bestX, bestY>>) = 0

\* every vertical candidate overlaps, a horizontal one is free, and the call returns
\* a free position beside the desired one
C13_Witness ==
    /\ findPc = "returned"
    /\ freeOffsets(findArgs) = {}
    /\ bestX # findArgs.initialX
    /\ OverlapCount(<<bestX, bestY>>) = 0

\* C14: if every examined candidate overlaps some existing node, no examined
\* candidate overlaps fewer existing nodes than the returned position
C14_LeastOverlapping ==
    (findPc = "returned" /\ \A c \in Examined : OverlapCount(c) > 0) =>
        \A c \in Examined : OverlapCount(<<bestX, bestY>>) <= OverlapCount(c)


\* the targets reachable over one or more input edges from the ids of frontier
RECURSIVE ReachedFrom(_, _)
ReachedFrom(seen, frontier) ==
    LET next == {edges[k].target : k \in {j \in 1..Len(edges) : edges[j].source \in frontier}}
    IN IF next \subseteq seen THEN seen ELSE ReachedFrom(seen \cup next, next \ seen)

Acyclic == \A id \in NodeIds : id \notin ReachedFrom({}, {id})

\* the greatest iter any edge from the k-th on leaves its loop with, horizontal layout
RECURSIVE NudgeIterFrom(_, _, _)
NudgeIterFrom(pos, order, k) ==
    IF k > Len(edges) THEN 0
    ELSE Max(nudgeEdgeIter(pos, order, edges[k].source, edges[k].target, 0),
             NudgeIterFrom(nudgeEdge(pos, order, edges[k].source, edges[k].target, 0),
                           order, k + 1))

\* the same for the radial layout
RECURSIVE RadialIterFrom(_, _, _)
RadialIterFrom(pos, order, k) ==
    IF k > Len(edges) THEN 0
    ELSE LET parentId == edges[k].source
             childId == edges[k].target
             both == Has(order, parentId) /\ Has(order, childId)
             dirSign == IF pos[childId].x >= pos[parentId].x THEN 1 ELSE 0 - 1
             here == IF ~ both THEN 0
                     ELSE radialShiftIter(pos[childId].x, pos[childId].y, pos[parentId].x,
                                          pos[parentId].y, parentId, childId, dirSign, 0)
             after == IF ~ both THEN pos
                      ELSE [pos EXCEPT ![childId].x =
                               radialShift(pos[childId].x, pos[childId].y, pos[parentId].x,
                                           pos[parentId].y, parentId, childId, dirSign, 0)]
         IN Max(here, RadialIterFrom(after, order, k + 1))

\* C15: on an acyclic input the horizontal layout never throws, its overlap pass runs at
\* most 50 iterations, every parent/child loop (horizontal and radial) runs at most 20
\* steps, and the returned layout holds every input node with a position
C15_BoundedLoops ==
    Acyclic =>
        /\ direction = "LR" => pc # "thrown" /\ iteration <= 50
        /\ (pc = "nudge" /\ direction = "LR") => NudgeIterFrom(positions, posOrder, 1) <= 20
        /\ (pc = "nudge" /\ direction = "radial") =>
               RadialIterFrom(positions, posOrder, 1) <= 20
        /\ (Returned /\ direction = "LR") =>
               /\ Len(newNodes) = Len(nodes)
               /\ \A id \in NodeIds : Has(posOrder, id) /\ newNodes[id].id = id

\* a horizontal layout of an acyclic graph returned after the overlap pass gave up at its cap
C15_Witness ==
    /\ Returned /\ direction = "LR" /\ Acyclic /\ Len(edges) > 0
    /\ warned /\ iteration = 50
    /\ \A id \in NodeIds : Has(posOrder, id)


\* C16: the horizontal layout returns the root with its centre at (800, 500), whatever
\* the children of the root are
C16_RootAtAnchor ==
    (Returned /\ direction = "LR" /\ IsTree) =>
        /\ CentreX(rootId) = Px(800)
        /\ CentreY(rootId) = Px(500)


\* C17: in every direction the size a returned node was placed with is its measured
\* size, else the size stored on its data, else 250 x 80
C17_SizePrecedence ==
    Returned =>
        \A id \in NodeIds :
            /\ newNodes[id].width =
                   Px(IF nodes[id].mw # 0 THEN nodes[id].mw
                      ELSE IF nodes[id].dw # 0 THEN nodes[id].dw ELSE 250)
            /\ newNodes[id].height =
                   Px(IF nodes[id].mh # 0 THEN nodes[id].mh
                      ELSE IF nodes[id].dh # 0 THEN nodes[id].dh ELSE 80)


C19_ArgumentsKept == [][nodes' = nodes /\ edges' = edges]_vars

\* a call has returned nodes at other positions and edges with other handles than the
\* ones it was given
C19_Witness ==
    /\ Returned /\ Len(edges) > 0
    /\ \E id \in NodeIds : newNodes[id].x # positionX(id) \/ newNodes[id].y # positionY(id)
    /\ \E k \in 1..Len(edges) : newEdges[k].sourceHandle # edges[k].sourceHandle


Untargeted == {id \in NodeIds : \A k \in 1..Len(edges) : edges[k].target # id}

\* C20: findRootNodes gives the nodes no edge points at, each once and in input order;
\* the first node alone when every node is pointed at; nothing for an empty node list
C20_FindRootNodes ==
    LET roots == findRootNodes(nodes, edges)
    IN /\ \A i \in 1..Len(roots) : \A j \in 1..Len(roots) : i < j => roots[i] < roots[j]
       /\ Untargeted # {} => {roots[i] : i \in 1..Len(roots)} = Untargeted
       /\ (Untargeted = {} /\ Len(nodes) > 0) => roots = <<1>>
       /\ Len(nodes) = 0 => roots = <<>>

\* the radial layout has laid out the trees findRootNodes gave it: several roots, or the
\* first node of a graph in which every node is pointed at
C20_Witness ==
    /\ direction = "radial" /\ pc \in {"nudge", "thrown"}
    /\ \/ Cardinality(Untargeted) >= 2 /\ Len(edges) > 0
       \/ Untargeted = {} /\ Len(nodes) >= 2


\* the edges leaving id, and the edges entering id, by their place in the edge list
EdgesFrom(id) == {k \in 1..Len(edges) : edges[k].source = id}
EdgesInto(id) == {k \in 1..Len(edges) : edges[k].target = id}

\* C21: after buildTree every node has as children the targets of its outgoing edges in
\* edge order, once per edge, and as parent the source of its last incoming edge (none
\* without one); a node with several incoming edges raises no error
C21_BuildTree ==
    (pc = "built") =>
        \A id \in NodeIds :
            /\ Len(children[id]) = Cardinality(EdgesFrom(id))
            /\ \A i \in 1..Len(children[id]) :
                   \E k \in EdgesFrom(id) :
                       /\ Cardinality({j \in EdgesFrom(id) : j <= k}) = i
                       /\ children[id][i] = edges[k].target
            /\ EdgesInto(id) = {} => parent[id] = 0
            /\ EdgesInto(id) # {} =>
                   \E k \in EdgesInto(id) :
                       /\ \A j \in EdgesInto(id) : j <= k
                       /\ parent[id] = edges[k].source

\* buildTree has run on a graph with a node entered by edges from two different nodes
C21_Witness ==
    /\ pc = "built"
    /\ \E id \in NodeIds :
           \E j \in EdgesInto(id) : \E k \in EdgesInto(id) :
               j < k /\ edges[j].source # edges[k].source /\ parent[id] = edges[k].source


\* the root of the tree of a forest that id stands in
RECURSIVE TreeRootOf(_)
TreeRootOf(id) == IF parent[id] = 0 THEN id ELSE TreeRootOf(parent[id])

\* C22: after 'radial' on a forest with two or more roots no box of one root's tree
\* intersects a box of another root's tree
C22_TreesApart ==
    (Returned /\ direction = "radial" /\ IsForest) =>
        \A a \in NodeIds : \A b \in NodeIds :
            TreeRootOf(a) # TreeRootOf(b) => ~ Intersect(a, b, 0)


\* the place of id among the children of its parent
IndexAmong(kids, id) == CHOOSE k \in 1..Len(kids) : kids[k] = id

\* the span [startAngle, endAngle] positionChildren is called with for id, in a forest
RECURSIVE SpanOf(_)
SpanOf(id) ==
    IF parent[id] = 0 THEN [startAngle |-> 0, endAngle |-> TwoPi]
    ELSE LET p == parent[id]
             of == SpanOf(p)
             n == Len(children[p])
             angle == childAngle(n, of.startAngle, of.endAngle, IndexAmong(children[p], id))
             span == childAngleSpan(n, of.startAngle, of.endAngle)
         IN [startAngle |-> angle - Half(span), endAngle |-> angle + Half(span)]

\* C23: in 'radial' on a forest the angle of every child lies in the span of its parent,
\* and the spans handed on to two children of one parent do not intersect
C23_AnglesInSpan ==
    (direction = "radial" /\ pc = "nudge" /\ IsForest) =>
        \A p \in NodeIds :
            LET n == Len(children[p])
                of == SpanOf(p)
            IN /\ \A k \in 1..n :
                      LET angle == childAngle(n, of.startAngle, of.endAngle, k)
                      IN of.startAngle <= angle /\ angle <= of.endAngle
               /\ \A a \in 1..n : \A b \in 1..n :
                      a < b => SpanOf(children[p][a]).endAngle
                                   <= SpanOf(children[p][b]).startAngle


\* C24: after 'TB' a node other than the root that dagre put on the wrong side of the
\* root's row is returned with its centre mirrored across that row: on the expected
\* side, as far from the root's centre as dagre had put it
C24_ExactMirror ==
    (Returned /\ direction = "TB") =>
        \A id \in NodeIds \ {rootId} :
            LET rootRow == positions[rootId].y
                nodeRow == positions[id].y
            IN /\ (id \in topSideNodes(rootId) /\ ~ (nodeRow < rootRow)) =>
                      CentreY(id) = rootRow - (nodeRow - rootRow)
               /\ (id \notin topSideNodes(rootId) /\ nodeRow < rootRow) =>
                      CentreY(id) = rootRow + (rootRow - nodeRow)

\* C25: after 'TB' every node other than the root that stood above the root in the input,
\* or that an edge with sourceHandle 'top' points at, is returned with its centre
\* strictly above the root's centre, targetPosition bottom and sourcePosition top
C25_TopStaysTop ==
    (Returned /\ direction = "TB") =>
        \A id \in NodeIds \ {rootId} :
            (\/ positionY(id) + Half(measuredSize(id).height)
                  < positionY(rootId) + Half(measuredSize(rootId).height)
             \/ \E k \in 1..Len(edges) : edges[k].target = id /\ edges[k].sourceHandle = "top")
            => /\ CentreY(id) < CentreY(rootId)
               /\ newNodes[id].targetPosition = "bottom"
               /\ newNodes[id].sourcePosition = "top"

\* a rank layout has returned a node that was dragged above the root and a node that an
\* edge with sourceHandle 'top' points at, either one ranked below the root by dagre
C25_Witness ==
    /\ Returned /\ direction = "TB"
    /\ \E id \in NodeIds \ {rootId} :
           /\ \/ positionY(id) < positionY(rootId)
              \/ \E k \in 1..Len(edges) : edges[k].target = id /\ edges[k].sourceHandle = "top"
           /\ positions[id].y > positions[rootId].y
           /\ CentreY(id) < CentreY(rootId)


\* the child of the root that id descends from, in a tree
RECURSIVE RootChildAbove(_)
RootChildAbove(id) == IF parent[id] = rootId THEN id ELSE RootChildAbove(parent[id])

\* positions when the parent/child pass comes to edge k
RECURSIVE PositionsAtEdge(_)
PositionsAtEdge(k) ==
    IF k = 1 THEN positions
    ELSE nudgeEdge(PositionsAtEdge(k - 1), posOrder, edges[k - 1].source,
                   edges[k - 1].target, 0)

\* C26: the parent/child pass of the horizontal layout of a tree leaves every child of
\* the left group with its centre left of its parent's centre and every child of the
\* right group right of it, and leaves parent and child at least 40 apart on one axis
\* unless the loop of their edge ran its 20 steps
C26_GrowsOutward ==
    [][(pc = "nudge" /\ pc' = "orphans" /\ direction = "LR" /\ IsTree) =>
          \A k \in 1..Len(edges) :
              LET p == edges[k].source
                  c == edges[k].target
                  pBox == getNodeBounds(positions', p)
                  cBox == getNodeBounds(positions', c)
              IN /\ sideOfRootChild(rootId, RootChildAbove(c)) = "left" =>
                        positions'[c].x < positions'[p].x
                 /\ sideOfRootChild(rootId, RootChildAbove(c)) = "right" =>
                        positions'[c].x > positions'[p].x
                 /\ nudgeEdgeIter(PositionsAtEdge(k), posOrder, p, c, 0) < 20 =>
                        \/ pBox.x + pBox.width + Px(40) <= cBox.x
                        \/ cBox.x + cBox.width + Px(40) <= pBox.x
                        \/ pBox.y + pBox.height + Px(40) <= cBox.y
                        \/ cBox.y + cBox.height + Px(40) <= pBox.y]_vars

\* a horizontal layout of a tree has returned a child that the pass had to move away
\* from its parent: it stands further than horizontalSpacing from it
C26_Witness ==
    /\ Returned /\ direction = "LR" /\ IsTree
    /\ \E k \in 1..Len(edges) :
           Abs(positions[edges[k].target].x - positions[edges[k].source].x) > Px(350)


\* the nodes of the call of calculateNodeLevels without an incoming edge
LevelRoots ==
    {id \in 1..levelArgs.n : \A k \in 1..Len(levelArgs.edges) : levelArgs.edges[k].target # id}

\* the nodes reached from S over exactly one edge
Successors(S) ==
    {levelArgs.edges[k].target :
        k \in {j \in 1..Len(levelArgs.edges) : levelArgs.edges[j].source \in S}}

\* the nodes whose shortest path from a root has d edges
RECURSIVE AtDistance(_)
AtDistance(d) ==
    IF d = 0 THEN LevelRoots
    ELSE Successors(AtDistance(d - 1)) \ UNION {AtDistance(e) : e \in 0..(d - 1)}

\* what calculateNodeLevels has returned: for every node the length of the shortest
\* path from a root, and 0 for the nodes no root reaches
LevelsAreDistances ==
    (levelPc = "returned") =>
        \A id \in 1..levelArgs.n :
            /\ nodeLevels[id] >= 0
            /\ \A d \in 0..levelArgs.n : id \in AtDistance(d) => nodeLevels[id] = d
            /\ (\A d \in 0..levelArgs.n : id \notin AtDistance(d)) => nodeLevels[id] = 0

\* C27: calculateNodeLevels returns, on graphs with cycles too, and gives every node the
\* length of its shortest path from a root, the roots 0, and 0 to the nodes no root
\* reaches
C27_Levels == [] LevelsAreDistances /\ <> (levelPc = "returned")

\* calculateNodeLevels has returned for a graph where a node has two paths of different
\* lengths from the root, or for a graph in which a cycle leaves no root
C27_Witness ==
    /\ levelPc = "returned"
    /\ \/ \E id \in 1..levelArgs.n :
              /\ id \in AtDistance(1)
              /\ \E m \in AtDistance(1) \ {id} : id \in Successors({m})
       \/ levelArgs.n >= 2 /\ LevelRoots = {}


\* C28: in the result of every direction, each node's targetPosition and sourcePosition
\* are two opposite sides of its box, the root and the nodes without an edge included
C28_OppositeHandles ==
    Returned =>
        \A id \in NodeIds :
            /\ newNodes[id].targetPosition \in Sides
            /\ newNodes[id].sourcePosition = OppositeSide(newNodes[id].targetPosition)

\* a radial result with a node above or below the root and a node that no edge touches
C28_Witness ==
    /\ Returned
    /\ direction = "radial"
    /\ \E id \in NodeIds : newNodes[id].targetPosition \in {"top", "bottom"}
    /\ \E id \in NodeIds : \A k \in 1..Len(edges) : edges[k].source # id /\ edges[k].target # id



C29_Witness ==
    /\ callNo = 2
    /\ pc = "returned"
    /\ Len(edges) >= 1


\* the nodes of the map reached from the nodes of S over one edge or more
RECURSIVE MapReached(_, _)
MapReached(S, n) ==
    LET next == S \cup {mapEdges[k].target :
                           k \in {j \in 1..Len(mapEdges) : mapEdges[j].source \in S}}
    IN IF n = 0 \/ next = S THEN S ELSE MapReached(next, n - 1)

MapChildren(id) ==
    {mapEdges[k].target : k \in {j \in 1..Len(mapEdges) : mapEdges[j].source = id}}

MapParents(id) ==
    {mapEdges[k].source : k \in {j \in 1..Len(mapEdges) : mapEdges[j].target = id}}

\* C30: from the initial map, whatever children and siblings are added, the map is a
\* forest: every edge joins two nodes of the map, no node has two incoming edges, no
\* node is reached from itself, and a sibling just added is a child of the parent of the
\* node it was added to, or stands without an edge when that node has no parent
C30_Forest ==
    /\ \A k \in 1..Len(mapEdges) :
          /\ mapEdges[k].source \in 1..Len(mapNodes)
          /\ mapEdges[k].target \in 1..Len(mapNodes)
    /\ \A id \in 1..Len(mapNodes) :
          /\ Cardinality({k \in 1..Len(mapEdges) : mapEdges[k].target = id}) <= 1
          /\ id \notin MapReached(MapChildren(id), Len(mapNodes))
    /\ lastOp.op = "sibling" =>
          /\ MapParents(Len(mapNodes)) = MapParents(lastOp.selected)
          /\ MapChildren(Len(mapNodes)) = {}

\* a sibling has just been added to a node that has a parent, in a map that has grown
\* to its bound
C30_Witness ==
    /\ lastOp.op = "sibling"
    /\ MapParents(lastOp.selected) # {}
    /\ MapParents(Len(mapNodes)) # {}
    /\ Len(mapNodes) = 1 + MaxEdits

=============================================================================
